---- MODULE Spec2Model ----
(***************************************************************************)
(* A model of the nomcc command-channel client library: the Connection     *)
(* protocol state machine (nonce handshake, sequence numbering, encryption *)
(* negotiation, outstanding-request table) and the Session that runs a     *)
(* reader, a writer and a closer thread on top of one Connection.          *)
(***************************************************************************)
EXTENDS Integers, Sequences, FiniteSets, TLC

VARIABLES
    conn,       \* the Connection object's fields (connection.py 74-112)
    ctor,       \* how Connection.__init__ ended: "none", "ok" or the exception
    sock,       \* the socket: closed / shut down flags and the frames sent
    args,       \* the arguments of Connection.__init__ and the peer's first frame
    written,    \* every message traced by Connection.write(), in call order
    rd,         \* the last Connection.read(): frame, connection before, outcome
    wr,         \* the last Connection.write(): message given, stamped, outcome
    sess        \* the Session on the connection: queue, threads, RequestStates

vars == <<conn, ctor, sock, args, written, rd, wr, sess>>

(***************************************************************************)
(* Bounds of the model.                                                    *)
(***************************************************************************)
\* Stands for _U63_MAX = 2^63 - 1 (connection.py 36), scaled to the model.
U63Max == 3
\* Connection.write() calls explored after the handshake.
MaxWrites == 2
\* self_nonce is drawn from 0..MaxNonce.
MaxNonce == 1
\* Connection.read() calls explored after the handshake.
MaxReads == 2
\* Session.ask() calls explored on one session.
MaxAsks == 2

(***************************************************************************)
(* Text <-> integer conversions.  Nonce fields travel as decimal byte      *)
(* strings; a byte string is a sequence of one-character strings.          *)
(***************************************************************************)
Digits == <<"0", "1", "2", "3", "4", "5", "6", "7", "8", "9">>

IsDigit(ch) == \E d \in 1..10 : Digits[d] = ch

DigitOf(ch) == (CHOOSE d \in 1..10 : Digits[d] = ch) - 1

AllDigits(s) == Len(s) > 0 /\ \A i \in 1..Len(s) : IsDigit(s[i])

RECURSIVE DigitsValue(_)
DigitsValue(s) ==
    IF Len(s) = 0 THEN 0
    ELSE 10 * DigitsValue(SubSeq(s, 1, Len(s) - 1)) + DigitOf(s[Len(s)])

\* Python str(n) of an integer, as bytes (maybe_encode(str(n))).
RECURSIVE str(_)
str(n) ==
    IF n < 0 THEN <<"-">> \o str(-n)
    ELSE IF n < 10 THEN <<Digits[n + 1]>>
    ELSE str(n \div 10) \o <<Digits[(n % 10) + 1]>>

\* Python int(text): whether it parses (an optional sign, then digits) ...
int_ok(s) ==
    \/ AllDigits(s)
    \/ Len(s) > 1 /\ s[1] \in {"-", "+"} /\ AllDigits(Tail(s))

\* ... and the value it parses to.
int(s) ==
    IF s[1] = "-" THEN -DigitsValue(Tail(s))
    ELSE IF s[1] = "+" THEN DigitsValue(Tail(s))
    ELSE DigitsValue(s)

(***************************************************************************)
(* Tables (Python dicts) are functions with a finite domain of keys.       *)
(***************************************************************************)
EmptyTable == [k \in {} |-> <<>>]

Has(t, k) == k \in DOMAIN t

With(t, k, v) == [x \in (DOMAIN t) \cup {k} |-> IF x = k THEN v ELSE t[x]]

Without(t, k) == [x \in (DOMAIN t) \ {k} |-> t[x]]

PutIf(cond, t, k, v) == IF cond THEN With(t, k, v) ELSE t

\* encryption policies (nomcc.encryption, used at connection.py 79-84)
UNENCRYPTED == "UNENCRYPTED"
DESIRED == "DESIRED"
REQUIRED == "REQUIRED"

\* "no shared secret" (secret is None) and the state None
NoSecret == "None"
None == 0

(***************************************************************************)
(* Message helpers (message.py).  A message is a table with the keys       *)
(* "_ctrl" and "_data"; both are tables themselves.                        *)
(***************************************************************************)
ONE == <<"1">>

is_request(message) ==
    LET _ctrl == message["_ctrl"]
    IN ~(Has(_ctrl, "_rpl") \/ Has(_ctrl, "_evt"))

kind(message) ==
    LET _ctrl == message["_ctrl"]
    IN IF Has(_ctrl, "_rpl") THEN "response"
       ELSE IF Has(_ctrl, "_evt") THEN "event"
       ELSE "request"

reply_to(request) ==
    LET d0 == IF Has(request["_data"], "type")
              THEN With(EmptyTable, "type", request["_data"]["type"])
              ELSE EmptyTable
        c0 == With(With(EmptyTable, "_rpl", ONE),
                   "_rseq", request["_ctrl"]["_sseq"])
        c1 == IF Has(request["_ctrl"], "_seq")
              THEN With(c0, "_seq", request["_ctrl"]["_seq"])
              ELSE c0
    IN [_ctrl |-> c1, _data |-> d0]

error(request, detail) ==
    LET response == reply_to(request)
    IN With(response, "_data", With(response["_data"], "err", detail))

(***************************************************************************)
(* The frame layer (wire.py), at the level of envelopes: a frame records   *)
(* who signed it (auth: a secret, or NoSecret for no _auth block), how the *)
(* body is wrapped (env) and the table the body encodes.                   *)
(***************************************************************************)
Raise(e) == [exc |-> e]

\* the value of an expression, computed once
Pick(S) == CHOOSE v \in S : TRUE

\* wire.py 146: a key is shorter than this
KeyLimit == 256

\* a key of 256 characters
LongKey == "kkkkkkkkkkkkkkkkkkkkkkkkkkkkkkkkkkkkkkkkkkkkkkkkkkkkkkkkkkkkkkkkkkkkkkkkkkkkkkkkkkkkkkkkkkkkkkkkkkkkkkkkkkkkkkkkkkkkkkkkkkkkkkkkkkkkkkkkkkkkkkkkkkkkkkkkkkkkkkkkkkkkkkkkkkkkkkkkkkkkkkkkkkkkkkkkkkkkkkkkkkkkkkkkkkkkkkkkkkkkkkkkkkkkkkkkkkkkkkkkkkkkkkkkkkkkkkkk"

\* wire.py 142-148: a key of the message, of its _ctrl or of its _data
\* fails the assertion of _encode_table
KeyTooLong(message) ==
    \E t \in {message} \cup {message[k] : k \in {"_ctrl", "_data"}
                                                \cap DOMAIN message} :
        \E k \in DOMAIN t : Len(k) >= KeyLimit

\* wire.py 97-139
to_wire(message, secret) ==
    LET want_compress == Has(message["_ctrl"], "_comp")
        m1 == With(message, "_ctrl", Without(message["_ctrl"], "_comp"))
    IN IF KeyTooLong(m1)
       THEN [exc |-> "AssertionError", message |-> m1]
       ELSE IF Has(m1["_ctrl"], "_enc")
       THEN IF secret = NoSecret
            THEN [exc |-> "NeedSecret", message |-> m1]
            ELSE [exc |-> "none", message |-> m1,
                  frame |-> [auth |-> secret,
                             env |-> IF want_compress THEN "_aes256z"
                                     ELSE "_aes256",
                             table |-> m1]]
       ELSE [exc |-> "none", message |-> m1,
             frame |-> [auth |-> secret, env |-> "clear", table |-> m1]]

\* wire.py 224-255, on the table that carries _ctrl and _data
_basic_syntax_checks(table) ==
    IF ~Has(table, "_ctrl") THEN "BadForm"
    ELSE IF ~Has(table, "_data") THEN "BadForm"
    ELSE IF ~Has(table["_data"], "type") THEN "BadForm"
    ELSE "none"

\* a from_wire that leaves a cleartext _ctrl as the peer sent it
from_wire_keepenc(frame, secret) ==
    LET has_auth == frame.auth # NoSecret
        outer == IF frame.env = "clear"
                 THEN _basic_syntax_checks(frame.table) ELSE "none"
    IN IF outer # "none" THEN Raise(outer)
       ELSE IF (secret # NoSecret \/ has_auth)
               /\ (secret = NoSecret \/ ~has_auth)
       THEN Raise("BadAuth")
       ELSE IF (secret # NoSecret \/ has_auth) /\ frame.auth # secret
       THEN Raise("BadAuth")
       ELSE IF frame.env = "clear"
       THEN [exc |-> "none",
             table |-> frame.table]
       ELSE IF secret = NoSecret THEN Raise("NeedSecret")
       ELSE IF _basic_syntax_checks(frame.table) # "none"
       THEN Raise(_basic_syntax_checks(frame.table))
       ELSE [exc |-> "none",
             table |-> With(frame.table, "_ctrl",
                            With(frame.table["_ctrl"], "_enc", ONE))]

\* wire.py 258-329
from_wire(frame, secret) ==
    LET has_auth == frame.auth # NoSecret
        outer == IF frame.env = "clear"
                 THEN _basic_syntax_checks(frame.table) ELSE "none"
    IN IF outer # "none" THEN Raise(outer)
       ELSE IF (secret # NoSecret \/ has_auth)
               /\ (secret = NoSecret \/ ~has_auth)
       THEN Raise("BadAuth")
       ELSE IF (secret # NoSecret \/ has_auth) /\ frame.auth # secret
       THEN Raise("BadAuth")
       ELSE IF frame.env = "clear"
       THEN [exc |-> "none",
             table |-> With(frame.table, "_ctrl",
                            Without(frame.table["_ctrl"], "_enc"))]
       ELSE IF secret = NoSecret THEN Raise("NeedSecret")
       ELSE IF _basic_syntax_checks(frame.table) # "none"
       THEN Raise(_basic_syntax_checks(frame.table))
       ELSE [exc |-> "none",
             table |-> With(frame.table, "_ctrl",
                            With(frame.table["_ctrl"], "_enc", ONE))]

(***************************************************************************)
(* Connection (connection.py).  Each operator takes the connection record  *)
(* and returns the record after the call, with the exception raised        *)
(* ("none" when the call returns normally).                                *)
(***************************************************************************)
\* connection.py 52-65
_get_nonce_field(_ctrl, field, zero_ok) ==
    IF ~Has(_ctrl, field) THEN [exc |-> "BadNoncing", value |-> 0]
    ELSE IF ~int_ok(_ctrl[field]) THEN [exc |-> "BadNoncing", value |-> 0]
    ELSE LET value == int(_ctrl[field])
         IN IF value < 0 \/ value > U63Max
            THEN [exc |-> "BadNoncing", value |-> value]
            ELSE IF value = 0 /\ ~zero_ok
            THEN [exc |-> "BadNoncing", value |-> value]
            ELSE [exc |-> "none", value |-> value]

\* an _add_outstanding that remembers nothing
_add_outstanding_skip(c, seqno, state) == c

\* connection.py 122-124
_add_outstanding(c, seqno, state) ==
    [c EXCEPT !.outstanding = With(@, seqno, state)]

\* a _delete_outstanding that finds the entry and leaves it in the table
_delete_outstanding_keep(c, seqno) ==
    IF Has(c.outstanding, seqno)
    THEN [found |-> TRUE, state |-> c.outstanding[seqno], conn |-> c]
    ELSE [found |-> FALSE, state |-> None, conn |-> c]

\* connection.py 126-133
_delete_outstanding(c, seqno) ==
    IF Has(c.outstanding, seqno)
    THEN [found |-> TRUE, state |-> c.outstanding[seqno],
          conn |-> [c EXCEPT !.outstanding = Without(@, seqno)]]
    ELSE [found |-> FALSE, state |-> None, conn |-> c]

NoOutstanding == [k \in {} |-> None]

\* connection.py 135-139
take_outstanding(c) ==
    [outstanding |-> c.outstanding,
     conn |-> [c EXCEPT !.outstanding = NoOutstanding]]

\* a _noncify that leaves self_next as it was
_noncify_nostep(c, message, state) ==
    LET m0 == IF Has(message, "_ctrl") THEN message
              ELSE With(message, "_ctrl", EmptyTable)
        c0 == With(With(With(m0["_ctrl"],
                  "_snon", str(c.self_nonce)),
                  "_sseq", str(c.self_next)),
                  "_pnon", str(c.peer_nonce))
        c1 == IF ~(Has(c0, "_rpl") \/ Has(c0, "_evt"))
              THEN _add_outstanding(c, c.self_next, state)
              ELSE c
        c2 == c1
        c3 == IF c.encrypted THEN With(c0, "_enc", ONE)
              ELSE Without(c0, "_enc")
        c4 == IF c.compressed THEN With(c3, "_comp", ONE)
              ELSE Without(c3, "_comp")
    IN [conn |-> c2, message |-> With(m0, "_ctrl", c4)]

\* connection.py 141-165
_noncify(c, message, state) ==
    LET m0 == IF Has(message, "_ctrl") THEN message
              ELSE With(message, "_ctrl", EmptyTable)
        c0 == With(With(With(m0["_ctrl"],
                  "_snon", str(c.self_nonce)),
                  "_sseq", str(c.self_next)),
                  "_pnon", str(c.peer_nonce))
        c1 == IF ~(Has(c0, "_rpl") \/ Has(c0, "_evt"))
              THEN _add_outstanding(c, c.self_next, state)
              ELSE c
        c2 == [c1 EXCEPT !.self_next = @ + 1]
        c3 == IF c.encrypted THEN With(c0, "_enc", ONE)
              ELSE Without(c0, "_enc")
        c4 == IF c.compressed THEN With(c3, "_comp", ONE)
              ELSE Without(c3, "_comp")
    IN [conn |-> c2, message |-> With(m0, "_ctrl", c4)]

\* a _check that does not compare _pnon with self_nonce
_check_anypnon(c, message) ==
    LET _ctrl == message["_ctrl"]
        _pnon == _get_nonce_field(_ctrl, "_pnon", FALSE)
        _snon == _get_nonce_field(_ctrl, "_snon", FALSE)
        _sseq == _get_nonce_field(_ctrl, "_sseq", FALSE)
        c1 == IF c.peer_nonce = 0
              THEN [c EXCEPT !.peer_nonce = _snon.value] ELSE c
        c2 == IF c1.peer_next = 0
              THEN [c1 EXCEPT !.peer_next = _sseq.value] ELSE c1
        c3 == [c2 EXCEPT !.peer_next = @ + 1]
    IN IF c.encrypted /\ ~Has(_ctrl, "_enc")
       THEN [exc |-> "BadNoncing", conn |-> c, state |-> None]
       ELSE IF _pnon.exc # "none"
       THEN [exc |-> _pnon.exc, conn |-> c, state |-> None]
       ELSE IF _snon.exc # "none"
       THEN [exc |-> _snon.exc, conn |-> c, state |-> None]
       ELSE IF c.peer_nonce # 0 /\ _snon.value # c.peer_nonce
       THEN [exc |-> "BadNoncing", conn |-> c, state |-> None]
       ELSE IF _sseq.exc # "none"
       THEN [exc |-> _sseq.exc, conn |-> c1, state |-> None]
       ELSE IF c1.peer_next # 0 /\ _sseq.value # c1.peer_next
       THEN [exc |-> "BadNoncing", conn |-> c1, state |-> None]
       ELSE IF Has(_ctrl, "_rpl")
       THEN IF ~Has(_ctrl, "_rseq")
            THEN [exc |-> "KeyError", conn |-> c3, state |-> None]
            ELSE IF ~int_ok(_ctrl["_rseq"])
            THEN [exc |-> "ValueError", conn |-> c3, state |-> None]
            ELSE LET d == _delete_outstanding(c3, int(_ctrl["_rseq"]))
                 IN IF ~d.found
                    THEN [exc |-> "BadNoncing", conn |-> d.conn,
                          state |-> None]
                    ELSE [exc |-> "none", conn |-> d.conn, state |-> d.state]
       ELSE [exc |-> "none", conn |-> c3, state |-> None]

\* a check that leaves peer_next where it is
_check_noadvance(c, message) ==
    LET _ctrl == message["_ctrl"]
        _pnon == _get_nonce_field(_ctrl, "_pnon", FALSE)
        _snon == _get_nonce_field(_ctrl, "_snon", FALSE)
        _sseq == _get_nonce_field(_ctrl, "_sseq", FALSE)
        c1 == IF c.peer_nonce = 0
              THEN [c EXCEPT !.peer_nonce = _snon.value] ELSE c
        c2 == IF c1.peer_next = 0
              THEN [c1 EXCEPT !.peer_next = _sseq.value] ELSE c1
        c3 == c2
    IN IF c.encrypted /\ ~Has(_ctrl, "_enc")
       THEN [exc |-> "BadNoncing", conn |-> c, state |-> None]
       ELSE IF _pnon.exc # "none"
       THEN [exc |-> _pnon.exc, conn |-> c, state |-> None]
       ELSE IF _snon.exc # "none"
       THEN [exc |-> _snon.exc, conn |-> c, state |-> None]
       ELSE IF c.peer_nonce # 0 /\ _snon.value # c.peer_nonce
       THEN [exc |-> "BadNoncing", conn |-> c, state |-> None]
       ELSE IF _sseq.exc # "none"
       THEN [exc |-> _sseq.exc, conn |-> c1, state |-> None]
       ELSE IF c1.peer_next # 0 /\ _sseq.value # c1.peer_next
       THEN [exc |-> "BadNoncing", conn |-> c1, state |-> None]
       ELSE IF Has(_ctrl, "_rpl")
       THEN IF ~Has(_ctrl, "_rseq")
            THEN [exc |-> "KeyError", conn |-> c3, state |-> None]
            ELSE IF ~int_ok(_ctrl["_rseq"])
            THEN [exc |-> "ValueError", conn |-> c3, state |-> None]
            ELSE LET d == _delete_outstanding(c3, int(_ctrl["_rseq"]))
                 IN IF ~d.found
                    THEN [exc |-> "BadNoncing", conn |-> d.conn,
                          state |-> None]
                    ELSE [exc |-> "none", conn |-> d.conn, state |-> d.state]
       ELSE [exc |-> "none", conn |-> c3, state |-> None]

\* connection.py 167-206
_check(c, message) ==
    LET _ctrl == message["_ctrl"]
        _pnon == _get_nonce_field(_ctrl, "_pnon", FALSE)
        _snon == _get_nonce_field(_ctrl, "_snon", FALSE)
        _sseq == _get_nonce_field(_ctrl, "_sseq", FALSE)
        c1 == IF c.peer_nonce = 0
              THEN [c EXCEPT !.peer_nonce = _snon.value] ELSE c
        c2 == IF c1.peer_next = 0
              THEN [c1 EXCEPT !.peer_next = _sseq.value] ELSE c1
        c3 == [c2 EXCEPT !.peer_next = @ + 1]
    IN IF c.encrypted /\ ~Has(_ctrl, "_enc")
       THEN [exc |-> "BadNoncing", conn |-> c, state |-> None]
       ELSE IF _pnon.exc # "none"
       THEN [exc |-> _pnon.exc, conn |-> c, state |-> None]
       ELSE IF _pnon.value # c.self_nonce
       THEN [exc |-> "BadNoncing", conn |-> c, state |-> None]
       ELSE IF _snon.exc # "none"
       THEN [exc |-> _snon.exc, conn |-> c, state |-> None]
       ELSE IF c.peer_nonce # 0 /\ _snon.value # c.peer_nonce
       THEN [exc |-> "BadNoncing", conn |-> c, state |-> None]
       ELSE IF _sseq.exc # "none"
       THEN [exc |-> _sseq.exc, conn |-> c1, state |-> None]
       ELSE IF c1.peer_next # 0 /\ _sseq.value # c1.peer_next
       THEN [exc |-> "BadNoncing", conn |-> c1, state |-> None]
       ELSE IF Has(_ctrl, "_rpl")
       THEN IF ~Has(_ctrl, "_rseq")
            THEN [exc |-> "KeyError", conn |-> c3, state |-> None]
            ELSE IF ~int_ok(_ctrl["_rseq"])
            THEN [exc |-> "ValueError", conn |-> c3, state |-> None]
            ELSE LET d == _delete_outstanding(c3, int(_ctrl["_rseq"]))
                 IN IF ~d.found
                    THEN [exc |-> "BadNoncing", conn |-> d.conn,
                          state |-> None]
                    ELSE [exc |-> "none", conn |-> d.conn, state |-> d.state]
       ELSE [exc |-> "none", conn |-> c3, state |-> None]

\* socket.sendall / recv on a socket that was shut down or closed fail
SockDead(s) == s.closed \/ s.shut

\* connection.py 276-284; input is what the socket delivers: a frame or EOF
_read(c, s, input) ==
    IF SockDead(s) \/ input.eof THEN Raise("EOFError")
    ELSE from_wire(input, c.secret)

\* connection.py 286-291; the result keeps the call's input, the connection
\* before the call and what _read() decoded; `returned` holds the message
\* returned to the caller
read(c, s, input) ==
    Pick({ IF m.exc # "none"
           THEN [exc |-> m.exc, conn |-> c, state |-> None,
                 returned |-> <<>>, message |-> <<>>,
                 pre |-> c, input |-> input]
           ELSE Pick({ IF k.exc # "none"
                       THEN [exc |-> k.exc, conn |-> k.conn, state |-> None,
                             returned |-> <<>>, message |-> <<m.table>>,
                             pre |-> c, input |-> input]
                       ELSE [exc |-> "none", conn |-> k.conn,
                             state |-> k.state, returned |-> <<m.table>>,
                             message |-> <<m.table>>,
                             pre |-> c, input |-> input]
                     : k \in {_check(c, m.table)} })
         : m \in {_read(c, s, input)} })

\* socket.sendall(wire), connection.py 306
sendall(s, frame) == [s EXCEPT !.out = Append(@, frame)]

\* connection.py 302-306; the result keeps the call's arguments and the
\* connection before the call; `traced` is the message given to the tracer
write(c, s, message, state) ==
    Pick({ Pick({ [exc |-> IF w.exc # "none" THEN w.exc
                           ELSE IF SockDead(s) THEN "socket.error"
                           ELSE "none",
                   conn |-> n.conn,
                   sock |-> IF w.exc = "none" /\ ~SockDead(s)
                            THEN sendall(s, w.frame) ELSE s,
                   traced |-> n.message, message |-> w.message,
                   pre |-> c, given |-> message, state |-> state]
                : w \in {to_wire(n.message, c.secret)} })
         : n \in {_noncify(c, message, state)} })

\* connection.py 293-300
_read_response(c, s, request, input) ==
    Pick({ IF r.exc # "none" THEN r
           ELSE IF ~Has(r.returned[1]["_ctrl"], "_rpl")
           THEN [r EXCEPT !.exc = "NotResponse"]
           ELSE IF r.returned[1]["_ctrl"]["_rseq"] # request["_ctrl"]["_sseq"]
           THEN [r EXCEPT !.exc = "BadResponse"]
           ELSE r
         : r \in {read(c, s, input)} })

\* the algorithms this side supports (connection.py 214)
aes256z == "aes256z"
aes256 == "aes256"

InList(x, list) == \E i \in 1..Len(list) : list[i] = x

\* connection.py 251-254
close(c, s) ==
    IF ~c.closed
    THEN [conn |-> [c EXCEPT !.closed = TRUE],
          sock |-> [s EXCEPT !.closed = TRUE]]
    ELSE [conn |-> c, sock |-> s]

\* connection.py 256-257
shutdown(s) == [s EXCEPT !.shut = TRUE]

\* a passive side that answers with the first algorithm of the list it knows
ChooseEncalg_first(c, _initenc) ==
    IF c.encryption_policy = UNENCRYPTED THEN "none"
    ELSE IF \E i \in 1..Len(_initenc) : _initenc[i] \in {"aes256z", "aes256"}
    THEN _initenc[CHOOSE i \in 1..Len(_initenc) :
                    /\ _initenc[i] \in {"aes256z", "aes256"}
                    /\ \A j \in 1..(i - 1) :
                          _initenc[j] \notin {"aes256z", "aes256"}]
    ELSE "none"

\* connection.py 218-225: the algorithm the passive side answers with
ChooseEncalg(c, _initenc) ==
    IF c.encryption_policy = UNENCRYPTED THEN "none"
    ELSE IF InList(aes256z, _initenc) THEN aes256z
    ELSE IF InList(aes256, _initenc) THEN aes256
    ELSE "none"

\* connection.py 216-225: the passive side's answer to the first request
HandshakeReply(request, alg) ==
    LET message == reply_to(request)
    IN IF alg = "none" THEN message
       ELSE With(message, "_ctrl", With(message["_ctrl"], "_encalg", alg))

\* connection.py 208-249, the passive side (request is the peer's request).
\* The reply is written with the request as its state; a reply is never
\* registered as outstanding, so the state is not kept.
_start_noncing_passive(c, s, request) ==
    Pick({ IF alg = "none" /\ c.encryption_policy = REQUIRED
           THEN [exc |-> "NotSecure", conn |-> c, sock |-> s,
                 wrote |-> <<>>, reads |-> <<>>]
           ELSE Pick({ [exc |-> w.exc,
                        conn |-> IF w.exc # "none" THEN w.conn
                                 ELSE [w.conn EXCEPT
                                         !.encrypted = (alg # "none"),
                                         !.compressed = (alg = aes256z)],
                        sock |-> w.sock, wrote |-> <<w>>, reads |-> <<>>]
                     : w \in {write(c, s, HandshakeReply(request, alg),
                                    None)} })
         : alg \in {ChooseEncalg(c,
                        IF Has(request["_ctrl"], "_initenc")
                        THEN request["_ctrl"]["_initenc"] ELSE <<>>)} })

\* an active side that takes the peer's _encalg whatever its own policy
Negotiate_anypolicy(c, response) ==
    LET has_encalg == Has(response["_ctrl"], "_encalg")
        _encalg == response["_ctrl"]["_encalg"]
    IN IF has_encalg /\ _encalg \notin {"aes256z", "aes256"}
       THEN [exc |-> "BadNoncing"]
       ELSE IF ~has_encalg /\ c.encryption_policy = REQUIRED
       THEN [exc |-> "NotSecure"]
       ELSE [exc |-> "none", encrypted |-> has_encalg,
             compressed |-> (has_encalg /\ _encalg = "aes256z")]

\* connection.py 232-249: what the active side makes of the response
Negotiate(c, response) ==
    LET has_encalg == Has(response["_ctrl"], "_encalg")
        _encalg == response["_ctrl"]["_encalg"]
    IN IF has_encalg /\ c.encryption_policy = UNENCRYPTED
       THEN [exc |-> "BadNoncing"]
       ELSE IF has_encalg /\ _encalg \notin {aes256z, aes256}
       THEN [exc |-> "BadNoncing"]
       ELSE IF ~has_encalg /\ c.encryption_policy = REQUIRED
       THEN [exc |-> "NotSecure"]
       ELSE [exc |-> "none", encrypted |-> has_encalg,
             compressed |-> (has_encalg /\ _encalg = aes256z)]

\* connection.py 211-214: the active side's first message
VersionRequest(c) ==
    [_ctrl |-> IF c.encryption_policy # UNENCRYPTED
               THEN With(EmptyTable, "_initenc", <<aes256z, aes256>>)
               ELSE EmptyTable,
     _data |-> With(EmptyTable, "type", "version")]

\* connection.py 208-249, the active side (request is None)
_start_noncing_active(c, s, input) ==
    Pick({ IF w.exc # "none"
           THEN [exc |-> w.exc, conn |-> w.conn, sock |-> w.sock,
                 wrote |-> <<w>>, reads |-> <<>>]
           ELSE Pick({ IF r.exc # "none"
                       THEN [exc |-> r.exc, conn |-> r.conn, sock |-> w.sock,
                             wrote |-> <<w>>, reads |-> <<r>>]
                       ELSE Pick({ [exc |-> g.exc,
                                    conn |-> IF g.exc # "none" THEN r.conn
                                             ELSE [r.conn EXCEPT
                                                !.encrypted = g.encrypted,
                                                !.compressed = g.compressed],
                                    sock |-> w.sock,
                                    wrote |-> <<w>>, reads |-> <<r>>]
                                 : g \in {Negotiate(c, r.returned[1])} })
                     : r \in {_read_response(w.conn, w.sock, w.message,
                                             input)} })
         : w \in {write(c, s, VersionRequest(c), None)} })

\* a constructor that keeps the policy DESIRED when there is no secret
NewConnection_nodowngrade(secret, encryption_policy, nonce) ==
    [closed |-> FALSE, secret |-> secret, self_nonce |-> nonce,
     self_next |-> 1, encryption_policy |-> encryption_policy,
     encrypted |-> FALSE, compressed |-> FALSE,
     peer_nonce |-> 0, peer_next |-> 0, outstanding |-> NoOutstanding]

\* connection.py 76-91: the fields before the handshake
NewConnection(secret, encryption_policy, nonce) ==
    [closed |-> FALSE, secret |-> secret, self_nonce |-> nonce,
     self_next |-> 1,
     encryption_policy |-> IF secret = NoSecret /\ encryption_policy = DESIRED
                           THEN UNENCRYPTED ELSE encryption_policy,
     encrypted |-> FALSE, compressed |-> FALSE,
     peer_nonce |-> 0, peer_next |-> 0, outstanding |-> NoOutstanding]

\* connection.py 92-105: the peer state taken from the first request
\* a passive side that takes any _pnon in the first request
InitPeer_anypnon(c, request) ==
    LET _ctrl == request["_ctrl"]
        _snon == _get_nonce_field(_ctrl, "_snon", FALSE)
        _sseq == _get_nonce_field(_ctrl, "_sseq", FALSE)
    IN IF Has(_ctrl, "_rpl") \/ Has(_ctrl, "_evt")
       THEN [exc |-> "BadNoncing"]
       ELSE IF _snon.exc # "none" THEN [exc |-> _snon.exc]
       ELSE IF _sseq.exc # "none" THEN [exc |-> _sseq.exc]
       ELSE [exc |-> "none",
             conn |-> [c EXCEPT !.peer_nonce = _snon.value,
                                !.peer_next = _sseq.value + 1]]

InitPeer(c, request) ==
    LET _ctrl == request["_ctrl"]
        _pnon == _get_nonce_field(_ctrl, "_pnon", TRUE)
        _snon == _get_nonce_field(_ctrl, "_snon", FALSE)
        _sseq == _get_nonce_field(_ctrl, "_sseq", FALSE)
    IN IF Has(_ctrl, "_rpl") \/ Has(_ctrl, "_evt")
       THEN [exc |-> "BadNoncing"]
       ELSE IF _pnon.exc # "none" THEN [exc |-> _pnon.exc]
       ELSE IF _pnon.value # 0 THEN [exc |-> "BadNoncing"]
       ELSE IF _snon.exc # "none" THEN [exc |-> _snon.exc]
       ELSE IF _sseq.exc # "none" THEN [exc |-> _sseq.exc]
       ELSE [exc |-> "none",
             conn |-> [c EXCEPT !.peer_nonce = _snon.value,
                                !.peer_next = _sseq.value + 1]]

\* connection.py 74-112
__init__(s, secret, want_read, encryption_policy, nonce, input) ==
    Pick({ IF ~want_read THEN _start_noncing_active(c0, s, input)
           ELSE Pick({ IF request.exc # "none"
                       THEN [exc |-> request.exc, conn |-> c0, sock |-> s,
                             wrote |-> <<>>, reads |-> <<>>]
                       ELSE Pick({ IF p.exc # "none"
                                   THEN [exc |-> p.exc, conn |-> c0,
                                         sock |-> s,
                                         wrote |-> <<>>, reads |-> <<>>]
                                   ELSE _start_noncing_passive(
                                            p.conn, s, request.table)
                                 : p \in {InitPeer(c0, request.table)} })
                     : request \in {_read(c0, s, input)} })
         : c0 \in {NewConnection(secret, encryption_policy, nonce)} })

(***************************************************************************)
(* What the peer can put on the socket.                                    *)
(***************************************************************************)
Absent == <<>>

Put(t, k, v) == IF v = Absent THEN t ELSE With(t, k, v)

MkCtrl(pnon, snon, sseq) ==
    Put(Put(Put(EmptyTable, "_pnon", pnon), "_snon", snon), "_sseq", sseq)

TypeOnly(t) == With(EmptyTable, "type", t)

Frame(auth, env, ctrl, data) ==
    [eof |-> FALSE, auth |-> auth, env |-> env,
     table |-> [_ctrl |-> ctrl, _data |-> data]]

EOF == [eof |-> TRUE]

\* texts a peer may send in a nonce field: numbers, and not a number
SweepTexts == {str(n) : n \in 0..(MaxNonce + 1)} \cup {<<"x">>}
\* negative, too big, and two other spellings of 1
OddTexts == {str(-1), str(U63Max + 1), <<"0", "1">>, <<"+", "1">>}

Secrets == {NoSecret, "s3cret"}
Signers == {NoSecret, "s3cret", "other"}
Policies == {UNENCRYPTED, DESIRED, REQUIRED}
Envelopes == {"clear", "_aes256", "_aes256z"}
SelfNonces == 0..MaxNonce

\* the envelope a well-behaved peer uses towards connection c
EnvFor(c) == IF c.encrypted
             THEN (IF c.compressed THEN "_aes256z" ELSE "_aes256")
             ELSE "clear"

(***************************************************************************)
(* The state before Connection.__init__ has run.                           *)
(***************************************************************************)
NoConn ==
    [closed |-> FALSE, secret |-> NoSecret, self_nonce |-> 0,
     self_next |-> 1, encryption_policy |-> DESIRED, encrypted |-> FALSE,
     compressed |-> FALSE, peer_nonce |-> 0, peer_next |-> 0,
     outstanding |-> NoOutstanding]

NewSock == [closed |-> FALSE, shut |-> FALSE, out |-> <<>>]

\* rd and wr before any call; n counts the calls
NoCall == [n |-> 0]

\* the record of call number n + 1, from the result r of read() or write()
Did(last, r) == [n |-> last.n + 1, call |-> r]

\* session.py 196-225 with want_start false: no thread runs yet
NoSession ==
    [started |-> FALSE, write_queue |-> <<>>, queue_none |-> FALSE,
     states |-> <<>>, enq |-> <<>>, _closing |-> FALSE, closed |-> FALSE,
     reader |-> "none", writer |-> "none", item |-> <<>>, closer |-> "none",
     close_calls |-> 0, expired |-> "none", close_runs |-> 0,
     seq |-> [made |-> FALSE],
     sequences |-> EmptyTable, next_id |-> 1, issued |-> <<>>,
     sequences_none |-> FALSE, seq_closed |-> {}, wq |-> <<>>,
     last |-> [n |-> 0, op |-> "none", exc |-> "none"],
     disp |-> [made |-> FALSE], regs |-> <<>>,
     timer |-> [made |-> FALSE]]

ConnInit ==
    /\ sess = NoSession
    /\ conn = NoConn
    /\ ctor = "none"
    /\ sock = NewSock
    /\ args = [done |-> FALSE]
    /\ written = <<>>
    /\ rd = NoCall
    /\ wr = NoCall

\* Connection(sock, secret, want_read, encryption_policy) meeting `input`
Construct(secret, want_read, policy, nonce, input) ==
    /\ ctor = "none"
    /\ \E r \in {__init__(sock, secret, want_read, policy, nonce, input)} :
          /\ conn' = r.conn
          /\ ctor' = IF r.exc = "none" THEN "ok" ELSE r.exc
          /\ sock' = r.sock
          /\ written' = [i \in 1..Len(r.wrote) |-> r.wrote[i].traced]
          /\ wr' = IF r.wrote = <<>> THEN wr ELSE Did(wr, r.wrote[1])
          /\ rd' = IF r.reads = <<>> THEN rd ELSE Did(rd, r.reads[1])
    /\ args' = [done |-> TRUE, secret |-> secret, want_read |-> want_read,
                encryption_policy |-> policy, nonce |-> nonce,
                input |-> input]
    /\ UNCHANGED sess

\* Connection.close()
Close ==
    /\ ctor = "ok"
    /\ LET r == close(conn, sock)
       IN conn' = r.conn /\ sock' = r.sock
    /\ UNCHANGED <<ctor, args, written, rd, wr, sess>>

(***************************************************************************)
(* The handshake on its own: every policy, with and without a secret,      *)
(* against every first frame of the bounded sets.                          *)
(***************************************************************************)
EncAlgs == {Absent, <<aes256z>>, <<aes256>>, <<"des">>}

\* a response to the active side's version request
HsResponse(pnon, snon, sseq, rpl, rseq, alg) ==
    Frame(NoSecret, "clear",
          PutIf(alg # Absent,
                Put(Put(MkCtrl(pnon, snon, sseq), "_rpl", rpl),
                    "_rseq", rseq),
                "_encalg", alg[1]),
          TypeOnly("version"))

\* the peer's answers: every _encalg with every _pnon and reply marking,
\* and every _encalg with every _snon
HsResponses ==
    { HsResponse(pnon, str(1), str(1), rpl, rseq, alg) :
        pnon \in SweepTexts, rpl \in {Absent, ONE},
        rseq \in {str(1), str(2), <<"0", "1">>}, alg \in EncAlgs }
    \cup
    { HsResponse(str(1), snon, sseq, ONE, str(1), alg) :
        snon \in SweepTexts \cup {Absent}, sseq \in {str(1), str(2)},
        alg \in EncAlgs }

\* what a peer may offer in _initenc
InitEncs ==
    {<<>>, <<aes256z>>, <<aes256>>, <<"des">>, <<aes256z, aes256>>,
     <<aes256, aes256z>>, <<"des", aes256>>, <<aes256, "des", aes256z>>}

\* a first request, read by the passive side
HsRequest(pnon, snon, sseq, flag, ie) ==
    Frame(NoSecret, "clear",
          PutIf(ie # Absent,
                Put(MkCtrl(pnon, snon, sseq), "_rpl", flag),
                "_initenc", ie[1]),
          TypeOnly("version"))

\* the peer's first requests: every offer with every _pnon and reply
\* marking, and two offers with every _snon and _sseq
HsRequests ==
    { HsRequest(pnon, str(1), str(1), flag, ie) :
        pnon \in {str(0), str(1), Absent}, flag \in {Absent, ONE},
        ie \in {Absent} \cup {<<e>> : e \in InitEncs} }
    \cup
    { HsRequest(str(0), snon, sseq, Absent, ie) :
        snon \in SweepTexts, sseq \in {str(0), str(1), str(U63Max)},
        ie \in {Absent, <<<<aes256>>>>} }
    \cup
    { Frame(NoSecret, "clear",
            Put(MkCtrl(str(0), str(1), str(1)), "_evt", ONE),
            TypeOnly("version")) }

\* a frame signed by the holder of `secret`
SignedBy(secret, input) ==
    IF input.eof THEN input ELSE [input EXCEPT !.auth = secret]

\* connection.py 337-386: connect() makes the socket and the active
\* Connection; an exception of the constructor passes through it
connect(secret, encrypt_only, encryption_policy, nonce, input) ==
    Construct(secret, FALSE,
              IF encrypt_only THEN REQUIRED ELSE encryption_policy,
              nonce, input)

HsConnect ==
    \E secret \in Secrets, policy \in Policies, nonce \in SelfNonces,
       encrypt_only \in BOOLEAN, input \in HsResponses \cup {EOF} :
        connect(secret, encrypt_only, policy, nonce, SignedBy(secret, input))

\* a server makes the passive Connection on an accepted socket
HsPassive ==
    \E secret \in Secrets, policy \in Policies, nonce \in SelfNonces,
       input \in HsRequests \cup {EOF} :
        Construct(secret, TRUE, policy, nonce, SignedBy(secret, input))

HsNext == HsConnect \/ HsPassive \/ Close

SpecHandshake == ConnInit /\ [][HsNext]_vars

(***************************************************************************)
(* Properties of the handshake (checked under SpecHandshake).              *)
(***************************************************************************)
\* decimal texts of the numbers a nonce field may carry
Canonical == {str(n) : n \in 1..U63Max}

HsCtrl == args.input.table["_ctrl"]

\* connect() met a well-formed response to its version request
RespOK ==
    /\ args.done /\ ~args.want_read /\ ~args.input.eof
    /\ args.nonce # 0
    /\ Has(HsCtrl, "_pnon") /\ HsCtrl["_pnon"] = str(args.nonce)
    /\ Has(HsCtrl, "_snon") /\ HsCtrl["_snon"] \in Canonical
    /\ Has(HsCtrl, "_sseq") /\ HsCtrl["_sseq"] \in Canonical
    /\ Has(HsCtrl, "_rpl")
    /\ Has(HsCtrl, "_rseq") /\ HsCtrl["_rseq"] = str(1)

\* the passive constructor met a well-formed first request
ReqOK ==
    /\ args.done /\ args.want_read /\ ~args.input.eof
    /\ ~Has(HsCtrl, "_rpl") /\ ~Has(HsCtrl, "_evt")
    /\ Has(HsCtrl, "_pnon") /\ HsCtrl["_pnon"] = str(0)
    /\ Has(HsCtrl, "_snon") /\ HsCtrl["_snon"] \in Canonical
    /\ Has(HsCtrl, "_sseq") /\ HsCtrl["_sseq"] \in Canonical

Established(enc, comp) ==
    ctor = "ok" /\ conn.encrypted = enc /\ conn.compressed = comp

\* the policy the connection works with: DESIRED without a secret is
\* UNENCRYPTED (connection.py 79-84)
Effective ==
    IF args.secret = NoSecret /\ args.encryption_policy = DESIRED
    THEN UNENCRYPTED ELSE args.encryption_policy

\* C8 as stated: on the active side, for every policy, an absent _encalg
\* gives a cleartext connection (NotSecure under REQUIRED), "aes256z" gives
\* encrypted and compressed, "aes256" encrypted only, anything else
\* BadNoncing.
C8_AsStated ==
    RespOK =>
        IF ~Has(HsCtrl, "_encalg")
        THEN IF args.encryption_policy = REQUIRED THEN ctor = "NotSecure"
             ELSE Established(FALSE, FALSE)
        ELSE IF HsCtrl["_encalg"] = aes256z THEN Established(TRUE, TRUE)
        ELSE IF HsCtrl["_encalg"] = aes256 THEN Established(TRUE, FALSE)
        ELSE ctor = "BadNoncing"

\* C8 amended: as C8, but when the effective policy is UNENCRYPTED (given
\* so, or DESIRED without a secret) every _encalg the peer names, "aes256z"
\* and "aes256" included, fails with BadNoncing.
C8_Negotiation ==
    RespOK =>
        IF ~Has(HsCtrl, "_encalg")
        THEN IF args.encryption_policy = REQUIRED THEN ctor = "NotSecure"
             ELSE Established(FALSE, FALSE)
        ELSE IF Effective = UNENCRYPTED THEN ctor = "BadNoncing"
        ELSE IF HsCtrl["_encalg"] = aes256z THEN Established(TRUE, TRUE)
        ELSE IF HsCtrl["_encalg"] = aes256 THEN Established(TRUE, FALSE)
        ELSE ctor = "BadNoncing"

\* C8 witness: an active side that asked for encryption was answered
\* "aes256z" and is encrypted and compressed.
C8_Witness ==
    /\ RespOK /\ Has(HsCtrl, "_encalg") /\ HsCtrl["_encalg"] = aes256z
    /\ Effective # UNENCRYPTED
    /\ Established(TRUE, TRUE)

Supported == {aes256z, aes256}

Offered == IF Has(HsCtrl, "_initenc") THEN HsCtrl["_initenc"] ELSE <<>>

OffersSupported == \E i \in 1..Len(Offered) : Offered[i] \in Supported

FirstSupported ==
    Offered[CHOOSE i \in 1..Len(Offered) :
              /\ Offered[i] \in Supported
              /\ \A j \in 1..(i - 1) : Offered[j] \notin Supported]

\* the handshake reply the passive side wrote names algorithm alg
RepliedWith(alg) ==
    /\ Len(written) = 1 /\ wr.n = 1
    /\ Has(written[1]["_ctrl"], "_rpl")
    /\ Has(written[1]["_ctrl"], "_encalg")
    /\ written[1]["_ctrl"]["_encalg"] = alg
    /\ Established(TRUE, alg = aes256z)

\* C9 as stated: on the passive side with a policy other than UNENCRYPTED
\* the reply's _encalg is the first element of _initenc that the side
\* supports, and encrypted/compressed match it.
C9_AsStated ==
    (ReqOK /\ Effective # UNENCRYPTED /\ OffersSupported)
        => RepliedWith(FirstSupported)

\* C9 amended: the reply's _encalg is "aes256z" whenever _initenc contains
\* it, at any position, and "aes256" only when _initenc contains "aes256"
\* and not "aes256z"; encrypted/compressed match the algorithm.
C9_Preference ==
    (ReqOK /\ Effective # UNENCRYPTED /\ OffersSupported)
        => RepliedWith(IF InList(aes256z, Offered) THEN aes256z ELSE aes256)

\* C9 witness: the peer listed aes256 before aes256z and was answered.
C9_Witness ==
    /\ ReqOK /\ Effective # UNENCRYPTED
    /\ Offered = <<aes256, aes256z>>
    /\ ctor = "ok"

\* the peer offers (passive side) or accepts (active side) no encryption
NoEncryption ==
    \/ RespOK /\ ~Has(HsCtrl, "_encalg")
    \/ ReqOK /\ ~OffersSupported

\* C10 as stated: with policy REQUIRED and no encryption offered or
\* accepted, construction fails with NotSecure and the socket is closed
\* when the failure is reported.
C10_AsStated ==
    (args.done /\ args.encryption_policy = REQUIRED /\ NoEncryption)
        => (ctor = "NotSecure" /\ sock.closed)

\* the active side was made without a secret and with the default policy
PlainActive ==
    /\ args.done /\ ~args.want_read
    /\ args.secret = NoSecret /\ args.encryption_policy = DESIRED

\* C11: an active connection with no secret and policy DESIRED sends first
\* a request of type version with _sseq = 1, _pnon = 0 and no _initenc;
\* once the peer's reply (_rpl, _rseq = 1, the peer's nonce, _sseq = 1) is
\* read, self_next = 2, peer_next = 2, encrypted is false and the
\* outstanding table is empty.
C11_PlainHandshake ==
    PlainActive =>
        /\ Len(sock.out) >= 1
        /\ sock.out[1].env = "clear"
        /\ sock.out[1].table["_data"]["type"] = "version"
        /\ is_request(sock.out[1].table)
        /\ sock.out[1].table["_ctrl"]["_sseq"] = str(1)
        /\ sock.out[1].table["_ctrl"]["_pnon"] = str(0)
        /\ ~Has(sock.out[1].table["_ctrl"], "_initenc")
        /\ (RespOK /\ HsCtrl["_sseq"] = str(1) /\ ~Has(HsCtrl, "_encalg")) =>
              /\ ctor = "ok"
              /\ conn.self_next = 2 /\ conn.peer_next = 2
              /\ conn.peer_nonce = int(HsCtrl["_snon"])
              /\ ~conn.encrypted /\ ~conn.compressed
              /\ conn.outstanding = NoOutstanding

\* C11 witness: such a connection read such a reply.
C11_Witness ==
    /\ PlainActive /\ RespOK
    /\ HsCtrl["_sseq"] = str(1) /\ ~Has(HsCtrl, "_encalg")
    /\ ctor = "ok" /\ ~conn.closed

(***************************************************************************)
(* An established connection in use: the peer behaves well during the      *)
(* handshake, and then anything may arrive and anything may be written.    *)
(***************************************************************************)
\* what a well-behaved peer answers to the version request of `nonce`
GoodResponses(nonce) ==
    { HsResponse(str(nonce), str(1), str(1), ONE, str(1), alg) :
        alg \in {Absent, <<aes256>>, <<aes256z>>} }

\* the first request of a well-behaved peer
GoodRequests ==
    { HsRequest(str(0), str(1), str(1), Absent, ie) :
        ie \in {Absent, <<<<aes256z, aes256>>>>, <<<<aes256>>>>} }

\* the handshake with a well-behaved peer, on either side
Establish ==
    \E secret \in Secrets, policy \in {DESIRED, REQUIRED},
       nonce \in SelfNonces, want_read \in BOOLEAN :
        \E input \in IF want_read THEN GoodRequests
                     ELSE GoodResponses(nonce) :
            Construct(secret, want_read, policy, nonce,
                      SignedBy(secret, input))

\* Connection.write(message, state)
Write(message, state) ==
    /\ ctor = "ok"
    /\ wr.n <= MaxWrites
    /\ \E w \in {write(conn, sock, message, state)} :
          /\ conn' = w.conn
          /\ sock' = w.sock
          /\ written' = Append(written, w.traced)
          /\ wr' = Did(wr, w)
    /\ UNCHANGED <<ctor, args, rd, sess>>

\* the reads made after the handshake (the active handshake makes one)
Reads == rd.n - (IF args.want_read THEN 0 ELSE 1)

\* Connection.read() when the socket delivers `input`; as in the reader
\* loop (session.py 100-140) nothing is read after a read that failed
Read(input) ==
    /\ ctor = "ok"
    /\ Reads < MaxReads
    /\ IF rd.n = 0 THEN TRUE ELSE rd.call.exc = "none"
    /\ \E r \in {read(conn, sock, input)} :
          /\ conn' = r.conn
          /\ rd' = Did(rd, r)
    /\ UNCHANGED <<ctor, sock, args, written, wr, sess>>

\* the nonce fields the connection expects next
Expected(c, field) ==
    IF field = "_pnon" THEN c.self_nonce
    ELSE IF field = "_snon" THEN c.peer_nonce
    ELSE c.peer_next

GoodCtrl(c) ==
    MkCtrl(str(c.self_nonce), str(c.peer_nonce), str(c.peer_next))

\* a frame wrapped and signed as the connection expects
PeerFrame(c, ctrl) == Frame(c.secret, EnvFor(c), ctrl, TypeOnly("ping"))

\* texts at and next to n, not a number, nothing, and the odd spellings
Near(n) ==
    {str(m) : m \in (n - 1)..(n + 1)} \cup {<<"x">>, Absent} \cup OddTexts

\* a request with one nonce field varied
ReadSweep ==
    \E field \in {"_pnon", "_snon", "_sseq"} :
        \E t \in Near(Expected(conn, field)) :
            Read(PeerFrame(conn,
                     IF t = Absent THEN Without(GoodCtrl(conn), field)
                     ELSE With(GoodCtrl(conn), field, t)))

RseqTexts ==
    {str(n) : n \in 1..(MaxWrites + 1)} \cup {Absent, <<"x">>, <<"0", "2">>}

\* a response or an event with good nonces
ReadReply ==
    \E rseq \in RseqTexts, mark \in {"_rpl", "_evt"} :
        Read(PeerFrame(conn,
                 Put(With(GoodCtrl(conn), mark, ONE), "_rseq", rseq)))

\* good nonces in every envelope, from every signer, with and without an
\* _enc put into _ctrl by the peer
ReadEnvelope ==
    \E env \in Envelopes, auth \in Signers, enc \in {Absent, ONE} :
        Read(Frame(auth, env, Put(GoodCtrl(conn), "_enc", enc),
                   TypeOnly("ping")))

\* the peer closed the connection
ReadEOF == Read(EOF)

\* a caller writes a request with a state of its own (a new RequestState
\* for each call, session.py 298-336)
Ask == Write([_data |-> TypeOnly("ping")], wr.n + 1)

ReadNext ==
    Establish \/ Ask \/ ReadSweep \/ ReadReply \/ ReadEnvelope \/ ReadEOF

SpecRead == ConnInit /\ [][ReadNext]_vars

\* a request of the peer, to reply to
PeerRequest ==
    [_ctrl |-> MkCtrl(str(1), str(1), str(2)), _data |-> TypeOnly("ping")]

\* what callers hand to write(): a request without _ctrl, a request that
\* already carries nonce fields and flags, a response, an event
Outbound ==
    { [_data |-> TypeOnly("ping")],
      [_ctrl |-> With(With(MkCtrl(str(U63Max), str(U63Max), str(U63Max)),
                           "_enc", ONE), "_comp", ONE),
       _data |-> TypeOnly("ping")],
      reply_to(PeerRequest),
      [_ctrl |-> With(EmptyTable, "_evt", ONE),
       _data |-> TypeOnly("ping")] }

WriteAny ==
    \E message \in Outbound, state \in {None, wr.n + 1} :
        Write(message, state)

\* Connection.shutdown()
Shutdown ==
    /\ ctor = "ok"
    /\ ~sock.shut
    /\ sock' = shutdown(sock)
    /\ UNCHANGED <<conn, ctor, args, written, rd, wr, sess>>

WriteNext == Establish \/ WriteAny \/ Shutdown \/ Close

SpecWrite == ConnInit /\ [][WriteNext]_vars

(***************************************************************************)
(* Properties of read() (checked under SpecRead).                          *)
(***************************************************************************)
\* the last read() got a message from the wire layer
Decoded == rd.n > 0 /\ rd.call.message # <<>>

\* ... and returned it
Accepted == Decoded /\ rd.call.exc = "none"

RdCtrl == rd.call.message[1]["_ctrl"]

\* the field of the message read is a number, and the number is n
FieldIs(field, n) ==
    Has(RdCtrl, field) /\ int_ok(RdCtrl[field]) /\ int(RdCtrl[field]) = n

\* the three conditions on the nonce fields, against the connection as it
\* was before the read
NoncesMatch ==
    /\ FieldIs("_pnon", rd.call.pre.self_nonce)
    /\ rd.call.pre.peer_nonce = 0 \/ FieldIs("_snon", rd.call.pre.peer_nonce)
    /\ rd.call.pre.peer_next = 0 \/ FieldIs("_sseq", rd.call.pre.peer_next)

\* C2: read() accepts a message only if its _pnon equals self_nonce, its
\* _snon equals peer_nonce (or peer_nonce is 0 and is learned from it) and
\* its _sseq equals peer_next (or peer_next is 0 and is learned from it);
\* every other message is rejected with BadNoncing and not returned.
C2_NoncesChecked ==
    Decoded =>
        /\ Accepted =>
              /\ NoncesMatch
              /\ FieldIs("_snon", rd.call.conn.peer_nonce)
              /\ FieldIs("_sseq", rd.call.conn.peer_next - 1)
        /\ ~NoncesMatch =>
              (rd.call.exc = "BadNoncing" /\ rd.call.returned = <<>>)

\* C2 witness: after the handshake, with the peer's nonce and sequence
\* number known, a message with matching nonce fields was accepted.
C2_Witness ==
    /\ Accepted /\ Reads > 0
    /\ rd.call.pre.peer_nonce # 0 /\ rd.call.pre.peer_next # 0
    /\ NoncesMatch

\* the message read is a response
Response == Decoded /\ Has(RdCtrl, "_rpl")

\* the _rseq of the response names an entry of the outstanding table
HasEntry ==
    /\ Has(RdCtrl, "_rseq") /\ int_ok(RdCtrl["_rseq"])
    /\ Has(rd.call.pre.outstanding, int(RdCtrl["_rseq"]))

\* C3 as stated: an accepted response's _rseq is the _sseq of one request
\* in the outstanding table, the entry is removed and its state returned;
\* a response whose _rseq has no outstanding entry is rejected with
\* BadNoncing.
C3_AsStated ==
    /\ (Response /\ Accepted) =>
          /\ HasEntry
          /\ rd.call.state = rd.call.pre.outstanding[int(RdCtrl["_rseq"])]
          /\ rd.call.conn.outstanding =
                 Without(rd.call.pre.outstanding, int(RdCtrl["_rseq"]))
          /\ written[int(RdCtrl["_rseq"])]["_ctrl"]["_sseq"]
                 = str(int(RdCtrl["_rseq"]))
          /\ is_request(written[int(RdCtrl["_rseq"])])
    /\ (Response /\ Has(RdCtrl, "_rseq") /\ ~HasEntry) =>
          rd.call.exc = "BadNoncing"

\* C7: on a connection that the handshake left encrypted, read() never
\* returns a message that arrived as cleartext: the decoder removes an
\* _enc from a cleartext _ctrl and sets _enc on decrypted messages only,
\* and a message without _enc is rejected with BadNoncing.
C7_NoCleartext ==
    /\ (Accepted /\ rd.call.pre.encrypted) => rd.call.input.env # "clear"
    /\ Decoded => (Has(RdCtrl, "_enc") <=> rd.call.input.env # "clear")
    /\ (Decoded /\ rd.call.pre.encrypted /\ ~Has(RdCtrl, "_enc")) =>
          (rd.call.exc = "BadNoncing" /\ rd.call.returned = <<>>)

\* C7 witness: on an encrypted connection a cleartext frame whose _ctrl
\* claims _enc, with good nonces and a good signature, was rejected.
C7_Witness ==
    /\ Decoded /\ rd.call.pre.encrypted
    /\ rd.call.input.env = "clear"
    /\ Has(rd.call.input.table["_ctrl"], "_enc")
    /\ NoncesMatch
    /\ rd.call.exc = "BadNoncing"

(***************************************************************************)
(* Properties of write() (checked under SpecWrite).                        *)
(***************************************************************************)
WrCtrl == wr.call.traced["_ctrl"]

\* C4: every message passed to write() is stamped with _snon = self_nonce,
\* _sseq = self_next as it was before the write and _pnon = peer_nonce (0
\* while the peer is unknown), and self_next grows by exactly 1 per write.
C4_Stamped ==
    wr.n > 0 =>
        /\ WrCtrl["_snon"] = str(wr.call.pre.self_nonce)
        /\ WrCtrl["_sseq"] = str(wr.call.pre.self_next)
        /\ WrCtrl["_pnon"] = str(wr.call.pre.peer_nonce)
        /\ wr.call.conn.self_next = wr.call.pre.self_next + 1
        /\ wr.call.exc = "none" =>
              LET sent == wr.call.sock.out[Len(wr.call.sock.out)]
              IN /\ sent.table["_ctrl"]["_snon"] = WrCtrl["_snon"]
                 /\ sent.table["_ctrl"]["_sseq"] = WrCtrl["_sseq"]
                 /\ sent.table["_ctrl"]["_pnon"] = WrCtrl["_pnon"]

\* C4 witness: a message that came with nonce fields of its own was
\* written after the handshake and carries the connection's.
C4_Witness ==
    /\ wr.n > 1
    /\ Has(wr.call.given, "_ctrl")
    /\ Has(wr.call.given["_ctrl"], "_sseq")
    /\ wr.call.given["_ctrl"]["_sseq"] # WrCtrl["_sseq"]
    /\ wr.call.exc = "none"

\* C5: over the write() calls of a connection, the handshake message
\* included, the _sseq values are 1, 2, 3, ... in call order.
C5_Consecutive ==
    /\ Len(written) = wr.n
    /\ \A i \in 1..Len(written) : written[i]["_ctrl"]["_sseq"] = str(i)

\* C5 witness: the handshake message and MaxWrites more were written.
C5_Witness == ctor = "ok" /\ Len(written) = MaxWrites + 1

(***************************************************************************)
(* Session (session.py) on its closer (closer.py).  The fields of the      *)
(* Session are the record sess; a RequestState is known by its position    *)
(* in sess.states, and that number is the state kept in the write queue    *)
(* and in the connection's outstanding table.                              *)
(***************************************************************************)
\* session.py 42-58; result is what the caller's get_response() returned
\* or raised, once it has ended
RequestState(return_data, raise_error, sequence_ok) ==
    [done |-> FALSE, response |-> <<>>, exception |-> "none",
     return_data |-> return_data, raise_error |-> raise_error,
     sequence_ok |-> sequence_ok, result |-> <<>>]

\* the RequestState of ask() with its defaults, for a complete message
NewRequestState == RequestState(FALSE, TRUE, FALSE)

\* states with the RequestState id replaced by st
SetState(states, id, st) ==
    [i \in 1..Len(states) |-> IF i = id THEN st ELSE states[i]]

\* session.py 87-93
__call__(states, id, message) ==
    SetState(states, id,
             [states[id] EXCEPT !.response = <<message>>, !.done = TRUE])

\* a return_exception that leaves the RequestState as it was
return_exception_lost(states, id, exception) == states

\* session.py 95-97
return_exception(states, id, exception) ==
    SetState(states, id,
             [states[id] EXCEPT !.exception = exception, !.done = TRUE])

\* session.py 66-85: what get_response(timeout) raises or returns; done
\* not set means that the timeout passed without it
get_response(st) ==
    IF ~st.done THEN [exc |-> "Timeout", value |-> <<>>]
    ELSE IF st.exception # "none"
    THEN [exc |-> st.exception, value |-> <<>>]
    ELSE IF ~st.sequence_ok /\ Has(st.response[1]["_ctrl"], "_seq")
    THEN [exc |-> "UnexpectedSequence", value |-> <<>>]
    ELSE IF st.raise_error /\ Has(st.response[1]["_data"], "err")
    THEN [exc |-> "Error", value |-> <<st.response[1]["_data"]["err"]>>]
    ELSE IF st.return_data
    THEN [exc |-> "none", value |-> <<st.response[1]["_data"]>>]
    ELSE [exc |-> "none", value |-> <<st.response[1]>>]

\* session.py 258-261 and 272-275: every state of ids that is not None
\* gets the exception Closing and is done
EndRequests(states, ids) ==
    [i \in 1..Len(states) |->
        IF i \in ids
        THEN [states[i] EXCEPT !.exception = "Closing", !.done = TRUE]
        ELSE states[i]]

\* a notify() that wakes nobody
notify_lost(writer) == writer

\* wake_writer.notify(): a writer that waits is made to run
notify(writer) == IF writer = "waiting" THEN "idle" ELSE writer

\* closer.py 95-105
request_close(s) == IF s._closing THEN s ELSE [s EXCEPT !._closing = TRUE]

\* a write() that does not look whether the queue was taken
session_write_unchecked(s, message, state) ==
    [exc |-> "none",
     sess |-> [s EXCEPT
                 !.write_queue =
                     Append(@, [message |-> <<message>>, state |-> state]),
                 !.enq = Append(@, message),
                 !.writer = IF Len(s.write_queue) = 0
                            THEN notify(@) ELSE @]]

\* session.py 284-296
session_write(s, message, state) ==
    IF s.queue_none THEN [exc |-> "Closing", sess |-> s]
    ELSE [exc |-> "none",
          sess |-> [s EXCEPT
                      !.write_queue =
                          Append(@, [message |-> <<message>>,
                                     state |-> state]),
                      !.enq = Append(@, message),
                      !.writer = IF Len(s.write_queue) = 0
                                 THEN notify(@) ELSE @]]

\* session.py 298-336, for a request that is a complete message
ask(s, request) ==
    Pick({ IF w.exc # "none" THEN w
           ELSE [exc |-> "none",
                 sess |-> [w.sess EXCEPT
                             !.states = Append(@, NewRequestState)]]
         : w \in {session_write(s, request, Len(s.states) + 1)} })

\* session.py 298-336 with raise_error and sequence_ok given
ask_with(s, request, raise_error, sequence_ok) ==
    Pick({ IF w.exc # "none" THEN w
           ELSE [exc |-> "none",
                 sess |-> [w.sess EXCEPT
                             !.states = Append(@,
                                 RequestState(FALSE, raise_error,
                                              sequence_ok))]]
         : w \in {session_write(s, request, Len(s.states) + 1)} })

\* what a call of session.dispatch(session, message, state) does:
\* NoDispatch when session.dispatch is None, else the value it returns
\* or the exception it raises
NoDispatch == "NoDispatch"
Reraised == {"SystemExit", "KeyboardInterrupt", "Closing"}
Outcomes == {NoDispatch, "True", "False", "Exception"} \cup Reraised

\* str(e) of the exception a dispatch callback raises
ExcText == "boom"

\* session.py 131-140: the loop is left and request_close() is called
reader_exit(s) == request_close([s EXCEPT !.reader = "exited"])

\* session.py 121 and 129: session.write(response) in the reader's loop
reader_write(s, response) ==
    Pick({ IF w.exc # "none" THEN reader_exit(w.sess) ELSE w.sess
         : w \in {session_write(s, response, None)} })

\* session.py 110-121: an exception of the callback, with its text
reader_raised(s, message, text) ==
    IF is_request(message) THEN reader_write(s, error(message, text))
    ELSE s

\* a reader that answers whatever is unhandled, of any kind
_reader_anykind(s, r, d) ==
    IF r.exc # "none" THEN reader_exit(s)
    ELSE IF r.state # None
    THEN [s EXCEPT !.states = __call__(@, r.state, r.returned[1])]
    ELSE IF d \in Reraised THEN reader_exit(s)
    ELSE IF d = "Exception"
    THEN IF is_request(r.returned[1])
         THEN reader_write(s, error(r.returned[1], ExcText))
         ELSE s
    ELSE IF d = "True" THEN s
    ELSE reader_write(s, error(r.returned[1], "unknown request"))

\* a reader that lets an exception of the dispatch callback end its loop
_reader_noconvert(s, r, d) ==
    IF r.exc # "none" THEN reader_exit(s)
    ELSE IF r.state # None
    THEN [s EXCEPT !.states = __call__(@, r.state, r.returned[1])]
    ELSE IF d \in Reraised \cup {"Exception"} THEN reader_exit(s)
    ELSE IF d = "True" THEN s
    ELSE IF is_request(r.returned[1])
    THEN reader_write(s, error(r.returned[1], "unknown request"))
    ELSE s

\* session.py 100-140: one pass of the reader's loop, r being what
\* connection.read() returned or raised and d what the dispatch callback
\* does if it is called.  A state that is not None is a RequestState,
\* whose __call__ binds the message and returns True.
_reader(s, r, d) ==
    IF r.exc # "none" THEN reader_exit(s)
    ELSE IF r.state # None
    THEN [s EXCEPT !.states = __call__(@, r.state, r.returned[1])]
    ELSE IF d \in Reraised THEN reader_exit(s)
    ELSE IF d = "Exception" THEN reader_raised(s, r.returned[1], ExcText)
    ELSE IF d = "True" THEN s
    ELSE IF is_request(r.returned[1])
    THEN reader_write(s, error(r.returned[1], "unknown request"))
    ELSE s

\* a closer whose loop starts again after _do_close()
_do_close_again(s) == [s EXCEPT !.closer = "wait", !.closed = TRUE]

\* closer.py 85-89 after _close() has returned, no callback registered
\* with at_close(); the closer thread ends with it (closer.py 60)
_do_close(s) == [s EXCEPT !.closer = "done", !.closed = TRUE]

\* write_queue.pop(-1): the item enqueued last
pop_last(q) == [item |-> q[Len(q)], rest |-> SubSeq(q, 1, Len(q) - 1)]

\* session.py 150: write_queue.pop(0)
pop0(q) == [item |-> q[1], rest |-> Tail(q)]

\* session.py 264: the item (None, None) that tells the writer to exit
Sentinel == [message |-> <<>>, state |-> None]

\* the states carried by the items of a queue
QueueStates(q) == {q[i].state : i \in 1..Len(q)} \ {None}

\* the states held in an outstanding table
TableStates(t) == {t[k] : k \in DOMAIN t} \ {None}

\* session.py 267-275: the remnants of the queue are taken, write_queue
\* is None from then on, and the states of the remnants are ended
take_remnants(s) ==
    [s EXCEPT !.write_queue = <<>>, !.queue_none = TRUE,
              !.wq = s.write_queue,
              !.states = EndRequests(@, QueueStates(s.write_queue))]

\* session.py 276-281: the sequences are taken, sequences is None from
\* then on, and each is closed; seq_closed keeps which were closed
close_sequences(s) ==
    [s EXCEPT !.sequences = EmptyTable, !.sequences_none = TRUE,
              !.seq_closed =
                  @ \cup {s.sequences[k].name : k \in DOMAIN s.sequences}]

(***************************************************************************)
(* One session: the caller threads, the reader, the writer, the closer.    *)
(***************************************************************************)
\* a connection for the session: a client or a server without encryption,
\* or a client that requires encryption and has no secret
SessConnect ==
    \/ Construct(NoSecret, FALSE, DESIRED, 1,
                 HsResponse(str(1), str(1), str(1), ONE, str(1), Absent))
    \/ Construct(NoSecret, TRUE, DESIRED, 1,
                 HsRequest(str(0), str(1), str(1), Absent, Absent))
    \/ Construct(NoSecret, FALSE, REQUIRED, 1,
                 HsResponse(str(1), str(1), str(1), ONE, str(1),
                            <<aes256>>))

\* session.py 196-233: Session(connection) starts the three threads
Start ==
    /\ ctor = "ok"
    /\ ~sess.started
    /\ sess' = [sess EXCEPT !.started = TRUE, !.reader = "run",
                            !.writer = "idle", !.closer = "wait"]
    /\ UNCHANGED <<conn, ctor, sock, args, written, rd, wr>>

\* a caller's ask(); each request has content of its own
CallerAsk ==
    /\ sess.started
    /\ Len(sess.states) < MaxAsks
    /\ \E a \in {ask(sess, [_data |-> With(TypeOnly("ping"), "arg",
                                           str(Len(sess.states) + 1))])} :
          sess' = a.sess
    /\ UNCHANGED <<conn, ctor, sock, args, written, rd, wr>>

\* a caller's close(): closer.py 107-110
CallerClose ==
    /\ sess.started
    /\ ~sess._closing
    /\ sess' = request_close(sess)
    /\ UNCHANGED <<conn, ctor, sock, args, written, rd, wr>>

\* the reader gets `input` from the socket and the dispatch callback, if
\* called, does d; with the call, rd keeps how many RequestStates the
\* callers had been given when it was made, and what the callback did
ReaderGetsWith(input, d) ==
    /\ sess.reader = "run"
    /\ \E r \in {read(conn, sock, input)} :
          /\ conn' = r.conn
          /\ rd' = [n |-> rd.n + 1, call |-> r, asked |-> Len(sess.states),
                    dispatch |-> IF r.exc = "none" /\ r.state = None
                                 THEN d ELSE "NotCalled"]
          /\ sess' = _reader(sess, r, d)
    /\ UNCHANGED <<ctor, sock, args, written, wr>>

\* the reader of a session without a dispatch callback gets `input`
ReaderGets(input) == ReaderGetsWith(input, NoDispatch)

\* the peer answers an outstanding request, or sends a request, or sends
\* a request whose _pnon is not this side's nonce
ReaderRead ==
    /\ sess.reader = "run"
    /\ Reads < MaxReads
    /\ \E ctrl \in {With(With(GoodCtrl(conn), "_rpl", ONE), "_rseq", str(k)) :
                       k \in DOMAIN conn.outstanding}
                   \cup {GoodCtrl(conn),
                         With(GoodCtrl(conn), "_pnon",
                              str(conn.self_nonce + 1))} :
          ReaderGets(PeerFrame(conn, ctrl))

\* the peer closed, or the socket was shut down under the reader
ReaderEOF == ReaderGets(EOF)

\* session.py 146-152: under write_lock, wait or take the first item
WriterTake ==
    /\ sess.writer = "idle"
    /\ sess' = IF Len(sess.write_queue) = 0
               THEN [sess EXCEPT !.writer = "waiting"]
               ELSE LET p == pop0(sess.write_queue)
                    IN IF p.item.message = <<>>
                       THEN [sess EXCEPT !.write_queue = p.rest,
                                         !.writer = "exited"]
                       ELSE [sess EXCEPT !.write_queue = p.rest,
                                         !.writer = "popped",
                                         !.item = <<p.item>>]
    /\ UNCHANGED <<conn, ctor, sock, args, written, rd, wr>>

\* session.py 155 into connection.py 303-304: _noncify and trace
WriterNoncify ==
    /\ sess.writer = "popped"
    /\ \E n \in {_noncify(conn, sess.item[1].message[1],
                          sess.item[1].state)} :
          /\ conn' = n.conn
          /\ written' = Append(written, n.message)
          /\ sess' = [sess EXCEPT !.writer = "stamped",
                                  !.item = <<[message |-> <<n.message>>,
                                              state |-> sess.item[1].state]>>]
    /\ UNCHANGED <<ctor, sock, args, rd, wr>>

\* connection.py 305-306 and session.py 156-184: to_wire and sendall, and
\* what the writer does when they raise
WriterSend ==
    /\ sess.writer = "stamped"
    /\ \E w \in {to_wire(sess.item[1].message[1], conn.secret)} :
          IF w.exc # "none"
          THEN /\ sess' = [sess EXCEPT
                             !.writer = "idle", !.item = <<>>,
                             !.states =
                                 IF sess.item[1].state = None THEN @
                                 ELSE return_exception(@, sess.item[1].state,
                                                       w.exc)]
               /\ sock' = sock
          ELSE IF SockDead(sock)
          THEN /\ sess' = request_close([sess EXCEPT !.writer = "exited",
                                                     !.item = <<>>])
               /\ sock' = sock
          ELSE /\ sess' = [sess EXCEPT !.writer = "idle", !.item = <<>>]
               /\ sock' = sendall(sock, w.frame)
    /\ UNCHANGED <<conn, ctor, args, written, rd, wr>>

\* closer.py 32-60: the loop is left once _closing is set and _do_close()
\* enters _close(); then session.py 247-253.  close_runs counts the
\* entries into _close().
CloserShutdown ==
    /\ sess.closer = "wait"
    /\ sess._closing
    /\ sock' = shutdown(sock)
    /\ sess' = [sess EXCEPT !.closer = "join_reader",
                            !.close_runs = @ + 1]
    /\ UNCHANGED <<conn, ctor, args, written, rd, wr>>

\* a closer that takes the outstanding table without waiting for the
\* reader
CloserTake_nojoin ==
    /\ sess.closer = "join_reader"
    /\ \E t \in {take_outstanding(conn)} :
          /\ conn' = t.conn
          /\ sess' = [sess EXCEPT
                        !.closer = "sentinel",
                        !.states = EndRequests(@,
                                       TableStates(t.outstanding))]
    /\ UNCHANGED <<ctor, sock, args, written, rd, wr>>

\* session.py 254-261
CloserTake ==
    /\ sess.closer = "join_reader"
    /\ sess.reader = "exited"
    /\ \E t \in {take_outstanding(conn)} :
          /\ conn' = t.conn
          /\ sess' = [sess EXCEPT
                        !.closer = "sentinel",
                        !.states = EndRequests(@,
                                       TableStates(t.outstanding))]
    /\ UNCHANGED <<ctor, sock, args, written, rd, wr>>

\* session.py 262-265
CloserSentinel ==
    /\ sess.closer = "sentinel"
    /\ sess' = [sess EXCEPT !.closer = "join_writer",
                            !.write_queue = <<Sentinel>> \o @,
                            !.writer = notify(@)]
    /\ UNCHANGED <<conn, ctor, sock, args, written, rd, wr>>

\* session.py 266-282
CloserRemnants ==
    /\ sess.closer = "join_writer"
    /\ sess.writer = "exited"
    /\ sess' = [close_sequences(take_remnants(sess))
                   EXCEPT !.closer = "set_closed"]
    /\ \E c \in {close(conn, sock)} : conn' = c.conn /\ sock' = c.sock
    /\ UNCHANGED <<ctor, args, written, rd, wr>>

\* closer.py 85-87 and 60
CloserSetClosed ==
    /\ sess.closer = "set_closed"
    /\ sess' = _do_close(sess)
    /\ UNCHANGED <<conn, ctor, sock, args, written, rd, wr>>

SessNext ==
    \/ SessConnect \/ Start \/ CallerAsk \/ CallerClose
    \/ ReaderRead \/ ReaderEOF
    \/ WriterTake \/ WriterNoncify \/ WriterSend
    \/ CloserShutdown \/ CloserTake \/ CloserSentinel \/ CloserRemnants
    \/ CloserSetClosed

SpecSession == ConnInit /\ [][SessNext]_vars

\* a reader blocked in recv() gets end-of-input once the socket is shut
\* down or closed
ReaderUnblocked == SockDead(sock) /\ ReaderEOF

\* the steps of the writer thread and of the closer thread
Writer == WriterTake \/ WriterNoncify \/ WriterSend
Closer ==
    \/ CloserShutdown \/ CloserTake \/ CloserSentinel \/ CloserRemnants
    \/ CloserSetClosed

\* The session with its threads scheduled: a thread that can take a step
\* takes it in the end.  Callers and the peer are under no obligation.
SpecSessionFair ==
    /\ ConnInit
    /\ [][SessNext]_vars
    /\ WF_vars(ReaderUnblocked)
    /\ WF_vars(Writer)
    /\ WF_vars(Closer)

(***************************************************************************)
(* The closer alone: callers that call close() and request_close() any     *)
(* number of times, and the idle and lifetime timers.                      *)
(***************************************************************************)
\* the number of close() and request_close() calls followed
MaxCloses == 3

\* closer.py 95-110: request_close() from any thread, or close(), which
\* is request_close() and a wait for closed; close_calls counts the calls
CallClose ==
    /\ sess.started
    /\ sess.close_calls < MaxCloses
    /\ sess' = [request_close(sess) EXCEPT !.close_calls = @ + 1]
    /\ UNCHANGED <<conn, ctor, sock, args, written, rd, wr>>

\* closer.py 36-45: the closer finds the idle or the lifetime timeout
\* reached (set_idletime() or set_lifetime() was called with a time)
CloserExpire ==
    /\ sess.closer = "wait"
    /\ ~sess._closing
    /\ \E timer \in {"idle", "life"} :
          sess' = [sess EXCEPT !._closing = TRUE, !.expired = timer]
    /\ UNCHANGED <<conn, ctor, sock, args, written, rd, wr>>

CloserNext ==
    \/ SessConnect \/ Start \/ CallerAsk
    \/ CallClose \/ CloserExpire
    \/ ReaderUnblocked
    \/ WriterTake \/ WriterNoncify \/ WriterSend
    \/ CloserShutdown \/ CloserTake \/ CloserSentinel \/ CloserRemnants
    \/ CloserSetClosed

SpecCloser == ConnInit /\ [][CloserNext]_vars

\* C13: however often close() and request_close() are called, and with
\* the idle or the lifetime timer expiring at any point among the calls,
\* the body of _close() is entered at most once, and exactly once by the
\* time closed is set.
C13_CloseOnce ==
    /\ sess.close_runs <= 1
    /\ sess.closed => sess.close_runs = 1

\* C13 witness: closed is set after a timer expired and close() or
\* request_close() was called more than once.
C13_Witness ==
    /\ sess.closed
    /\ sess.expired # "none"
    /\ sess.close_calls >= 2

(***************************************************************************)
(* Callers that wait: tell() is ask() and get_response() (session.py       *)
(* 338-363), and the peer answers with and without err.                    *)
(***************************************************************************)
\* the end of a caller's get_response(): the response, the exception, or
\* the timeout when the RequestState is not done
GetResponse ==
    \E i \in 1..Len(sess.states) :
        /\ sess.states[i].result = <<>>
        /\ \E g \in {get_response(sess.states[i])} :
              sess' = [sess EXCEPT
                         !.states = SetState(@, i,
                             [sess.states[i] EXCEPT !.result = <<g>>])]
        /\ UNCHANGED <<conn, ctor, sock, args, written, rd, wr>>

\* the _data of the peer's answers
Answers == {TypeOnly("ping"), With(TypeOnly("ping"), "err", "refused")}

\* the peer answers an outstanding request
ReaderAnswer ==
    /\ sess.reader = "run"
    /\ Reads < MaxReads
    /\ \E k \in DOMAIN conn.outstanding, data \in Answers :
          ReaderGets(Frame(conn.secret, EnvFor(conn),
                           With(With(GoodCtrl(conn), "_rpl", ONE),
                                "_rseq", str(k)),
                           data))

\* a client's connection without encryption
TellConnect ==
    Construct(NoSecret, FALSE, DESIRED, 1,
              HsResponse(str(1), str(1), str(1), ONE, str(1), Absent))

TellNext ==
    \/ TellConnect \/ Start \/ CallerAsk \/ GetResponse
    \/ ReaderAnswer \/ ReaderEOF
    \/ WriterTake \/ WriterNoncify \/ WriterSend
    \/ CloserShutdown \/ CloserTake \/ CloserSentinel \/ CloserRemnants
    \/ CloserSetClosed

SpecTell == ConnInit /\ [][TellNext]_vars

\* the caller of RequestState i gets Timeout in this step
TimesOut(i) ==
    /\ i <= Len(sess.states)
    /\ sess.states[i].result = <<>>
    /\ sess'.states[i].result # <<>>
    /\ sess'.states[i].result[1].exc = "Timeout"

\* the session's reader read a response that names an outstanding entry
\* and carries the nonces and the envelope the connection expects
MatchingResponse ==
    /\ sess.started /\ Reads > 0
    /\ Response /\ NoncesMatch /\ HasEntry
    /\ rd.call.input.env = EnvFor(rd.call.pre)

\* C14: a tell() that times out raises Timeout and changes neither the
\* outstanding table nor anything else of the connection, and does not
\* put the session into closing; a matching response read afterwards (or
\* at any time) is accepted without BadNoncing, its entry is removed and
\* it is bound to the RequestState, and the reader goes on reading.
C14_TimeoutKeepsEntry ==
    /\ [][\A i \in 1..MaxAsks :
            TimesOut(i) =>
                /\ ~sess.states[i].done
                /\ conn' = conn /\ sock' = sock
                /\ sess'._closing = sess._closing
                /\ sess'.write_queue = sess.write_queue
                /\ sess'.reader = sess.reader]_vars
    /\ [](MatchingResponse =>
            /\ rd.call.exc = "none"
            /\ rd.call.state = rd.call.pre.outstanding[int(RdCtrl["_rseq"])]
            /\ ~Has(rd.call.conn.outstanding, int(RdCtrl["_rseq"]))
            /\ sess.states[rd.call.state].response = rd.call.returned)
    /\ [][(MatchingResponse' /\ rd' # rd) => sess'.reader = sess.reader]_vars

\* C14 witness: a caller got Timeout, the response to its request came
\* afterwards and was bound to its RequestState, and the session is
\* neither closing nor has its reader stopped.
C14_Witness ==
    /\ MatchingResponse
    /\ rd.call.exc = "none"
    /\ sess.states[rd.call.state].result # <<>>
    /\ sess.states[rd.call.state].result[1].exc = "Timeout"
    /\ sess.states[rd.call.state].response # <<>>
    /\ ~sess._closing /\ sess.reader = "run"

(***************************************************************************)
(* Callers that choose raise_error and sequence_ok, and a peer whose       *)
(* answers carry err, _seq, both or neither.                               *)
(***************************************************************************)
\* (raise_error, sequence_ok) of the calls: the defaults of tell(), the
\* caller that allows a sequence, the caller that wants no Error raised
AskFlags == {<<TRUE, FALSE>>, <<TRUE, TRUE>>, <<FALSE, FALSE>>}

\* one caller's tell() after tell(): session.py 361-363, the ask()
CallerAskWith ==
    /\ sess.started
    /\ Len(sess.states) < MaxAsks
    /\ \A i \in 1..Len(sess.states) : sess.states[i].result # <<>>
    /\ \E f \in AskFlags :
          \E a \in {ask_with(sess, [_data |-> With(TypeOnly("ping"), "arg",
                                               str(Len(sess.states) + 1))],
                              f[1], f[2])} :
              sess' = a.sess
    /\ UNCHANGED <<conn, ctor, sock, args, written, rd, wr>>

\* the peer answers an outstanding request, in a sequence or not
ReaderAnswerSeq ==
    /\ sess.reader = "run"
    /\ Reads < MaxReads
    /\ \E k \in DOMAIN conn.outstanding, data \in Answers,
          seq \in {Absent, str(7)} :
          ReaderGets(Frame(conn.secret, EnvFor(conn),
                           Put(With(With(GoodCtrl(conn), "_rpl", ONE),
                                    "_rseq", str(k)), "_seq", seq),
                           data))

\* the session while nothing closes it
ErrNext ==
    \/ TellConnect \/ Start \/ CallerAskWith \/ GetResponse
    \/ ReaderAnswerSeq
    \/ WriterTake \/ WriterNoncify \/ WriterSend

SpecErr == ConnInit /\ [][ErrNext]_vars

\* get_response() of RequestState i ended with the response delivered,
\* the request was made with raise_error true, and _data carries err
ErrDelivered(i) ==
    /\ i <= Len(sess.states)
    /\ sess.states[i].raise_error
    /\ sess.states[i].response # <<>>
    /\ Has(sess.states[i].response[1]["_data"], "err")
    /\ sess.states[i].result # <<>>
    /\ sess.states[i].result[1].exc # "Timeout"

\* the outstanding entry of the request that RequestState i's response
\* answers is gone
EntryRemoved(i) ==
    ~Has(conn.outstanding,
         int(sess.states[i].response[1]["_ctrl"]["_rseq"]))

\* C15 as stated: for every response delivered to a request made with
\* raise_error true whose _data contains err, get_response() raises Error
\* with that err text, and the outstanding entry of the request has been
\* removed.
C15_AsStated ==
    \A i \in 1..MaxAsks :
        ErrDelivered(i) =>
            /\ sess.states[i].result[1].exc = "Error"
            /\ sess.states[i].result[1].value
                   = <<sess.states[i].response[1]["_data"]["err"]>>
            /\ EntryRemoved(i)

(***************************************************************************)
(* The reader with a dispatch callback: the peer sends requests, events    *)
(* and responses, well formed or not, and the callback handles a message,  *)
(* declines it, or raises.                                                 *)
(***************************************************************************)
\* a client's or a server's connection without encryption
DispatchConnect ==
    \/ Construct(NoSecret, FALSE, DESIRED, 1,
                 HsResponse(str(1), str(1), str(1), ONE, str(1), Absent))
    \/ Construct(NoSecret, TRUE, DESIRED, 1,
                 HsRequest(str(0), str(1), str(1), Absent, Absent))

\* how many requests the callers have enqueued
CallerWrites ==
    Cardinality({k \in 1..Len(sess.enq) : ~Has(sess.enq[k], "_ctrl")})

\* session.py 284-296: a caller's write() of a request without a state
CallerWrite ==
    /\ sess.started
    /\ CallerWrites < MaxAsks
    /\ \E w \in {session_write(sess, [_data |-> TypeOnly("note")], None)} :
          sess' = w.sess
    /\ UNCHANGED <<conn, ctor, sock, args, written, rd, wr>>

\* the _ctrl of what the peer sends: a request, an event, a response to
\* a request that is outstanding
PeerCtrls(c) ==
    {GoodCtrl(c), With(GoodCtrl(c), "_evt", ONE)}
    \cup {With(With(GoodCtrl(c), "_rpl", ONE), "_rseq", str(k)) :
              k \in DOMAIN c.outstanding}

\* _data as it should be, and _data without type, which the decoder
\* refuses with BadForm (wire.py 243-245)
PeerDatas == {TypeOnly("ping"), EmptyTable}

\* the reader reads what the peer sent and the dispatch callback acts
ReaderDispatch ==
    /\ sess.reader = "run"
    /\ Reads < MaxReads
    /\ \E ctrl \in PeerCtrls(conn), data \in PeerDatas, d \in Outcomes :
          ReaderGetsWith(Frame(conn.secret, EnvFor(conn), ctrl, data), d)

\* the session up to the closer's first step
DispatchNext ==
    \/ DispatchConnect \/ Start \/ CallerWrite \/ ReaderDispatch
    \/ WriterTake \/ WriterNoncify \/ WriterSend

SpecDispatch == ConnInit /\ [][DispatchNext]_vars

\* this step is a pass of the reader's loop in which read() returned
ReaderPass == sess.started /\ rd' # rd /\ rd'.call.exc = "none"

\* in this step the reader enqueued one message, a response to the
\* request just read that carries err = text, and nothing else
Replied(text) ==
    /\ Len(sess'.enq) = Len(sess.enq) + 1
    /\ SubSeq(sess'.enq, 1, Len(sess.enq)) = sess.enq
    /\ Len(sess'.write_queue) = Len(sess.write_queue) + 1
    /\ sess'.write_queue[Len(sess'.write_queue)]
           = [message |-> <<sess'.enq[Len(sess'.enq)]>>, state |-> None]
    /\ Has(sess'.enq[Len(sess'.enq)]["_ctrl"], "_rpl")
    /\ sess'.enq[Len(sess'.enq)]["_ctrl"]["_rseq"]
           = rd'.call.returned[1]["_ctrl"]["_sseq"]
    /\ Has(sess'.enq[Len(sess'.enq)]["_data"], "err")
    /\ sess'.enq[Len(sess'.enq)]["_data"]["err"] = text

\* in this step nothing was enqueued
NoWrite ==
    /\ sess'.enq = sess.enq
    /\ sess'.write_queue = sess.write_queue

\* C16: for every inbound request that neither a RequestState nor the
\* dispatch callback handles, the reader enqueues exactly one response,
\* with err = "unknown request" and _rseq equal to the request's _sseq;
\* an unhandled response or event causes no write at all.
C16_UnknownRequest ==
    [][ReaderPass =>
          /\ (/\ rd'.dispatch \in {NoDispatch, "False"}
              /\ is_request(rd'.call.returned[1]))
                 => Replied("unknown request")
          /\ (/\ rd'.dispatch \in {NoDispatch, "False", "Exception"}
              /\ ~is_request(rd'.call.returned[1]))
                 => NoWrite]_vars

\* C16 witness: the callback declined a request and the response with
\* "unknown request" is the last message enqueued.
C16_Witness ==
    /\ sess.started /\ Reads > 0
    /\ rd.call.exc = "none"
    /\ rd.dispatch = "False"
    /\ is_request(rd.call.returned[1])
    /\ Len(sess.enq) > 0
    /\ Has(sess.enq[Len(sess.enq)], "_ctrl")
    /\ Has(sess.enq[Len(sess.enq)]["_data"], "err")
    /\ sess.enq[Len(sess.enq)]["_data"]["err"] = "unknown request"
    /\ sess.reader = "run"

\* C17: when the dispatch callback raises an ordinary exception on an
\* inbound request (a request has no RequestState to continue with), the
\* reader enqueues one response whose err is the exception's text and
\* keeps reading, the session not closing; SystemExit, KeyboardInterrupt
\* and Closing are not converted: nothing is enqueued and the loop ends.
C17_ExceptionToError ==
    [][(ReaderPass /\ is_request(rd'.call.returned[1])) =>
          /\ rd'.dispatch = "Exception" =>
                 /\ Replied(ExcText)
                 /\ sess'.reader = "run"
                 /\ sess'._closing = sess._closing
          /\ rd'.dispatch \in Reraised =>
                 /\ NoWrite
                 /\ sess'.reader = "exited"
                 /\ sess'._closing]_vars

\* C17 witness: the callback raised on a request, the response with the
\* exception's text is the last message enqueued, the reader runs on.
C17_Witness ==
    /\ sess.started /\ Reads > 0
    /\ rd.call.exc = "none"
    /\ rd.dispatch = "Exception"
    /\ is_request(rd.call.returned[1])
    /\ Len(sess.enq) > 0
    /\ Has(sess.enq[Len(sess.enq)]["_data"], "err")
    /\ sess.enq[Len(sess.enq)]["_data"]["err"] = ExcText
    /\ sess.reader = "run" /\ ~sess._closing

\* the exceptions of the decoder (wire.py)
CodecErrors == {"BadForm"}

\* the session's reader met a codec error in its last read
CodecErrorRead ==
    /\ sess.started /\ Reads > 0
    /\ rd.call.exc \in CodecErrors

\* C18 as stated: a codec error raised while decoding an inbound request
\* results in an error response to the peer and the session staying
\* open; a codec error on an inbound response or event closes the
\* session.
C18_AsStated ==
    CodecErrorRead =>
        IF is_request(rd.call.input.table)
        THEN /\ sess.reader = "run" /\ ~sess._closing
             /\ Len(sess.enq) > 0
             /\ Has(sess.enq[Len(sess.enq)], "_ctrl")
             /\ Has(sess.enq[Len(sess.enq)]["_data"], "err")
        ELSE sess.reader = "exited" /\ sess._closing

(***************************************************************************)
(* Sequences (sequence.py): a Reader made by session.sequence() and the    *)
(* calls of its next().  What session.tell() does when next() calls it --  *)
(* the peer's response, or Timeout -- is an input of the call.  sess.seq   *)
(* holds the Reader and, for each tell(), the request and its response,    *)
(* and for each next() what it returned or raised.                         *)
(***************************************************************************)
\* the number of tell() calls of one Reader that are followed
MaxTells == 2

\* a list value with its elements, and a value under 'list' that is no list
ListValue(items) == [islist |-> TRUE, items |-> items]
NotAList == [islist |-> FALSE, items |-> <<>>]

\* sequence.py 20-33: Reader(session, data, timeout, num, raise_error)
\* for data that is a string
NewReader(data, num, raise_error) ==
    [request |-> [_data |-> TypeOnly(data)],
     first |-> TRUE, done |-> FALSE, _datas |-> <<>>, _num |-> num,
     raise_error |-> raise_error, _seq |-> <<>>, batch |-> FALSE]

\* list.reverse()
Reverse(l) == [i \in 1..Len(l) |-> l[Len(l) + 1 - i]]

\* list.pop(): the last element is taken
pop(l) == [item |-> l[Len(l)], rest |-> SubSeq(l, 1, Len(l) - 1)]

\* len(_data): the number of keys
len(table) == Cardinality(DOMAIN table)

\* what next() raises or returns
Raised(R, asked, exc) ==
    [reader |-> R, asked |-> asked, exc |-> exc, value |-> <<>>]
Returned(R, asked, _data) ==
    [reader |-> R, asked |-> asked, exc |-> "none", value |-> <<_data>>]

\* sequence.py 76-80
finish(R, asked, _data) ==
    IF R.done /\ len(_data) = 1 THEN Raised(R, asked, "StopIteration")
    ELSE IF R.raise_error /\ Has(_data, "err")
    THEN Raised(R, asked, "Error")
    ELSE Returned(R, asked, _data)

\* sequence.py 58-61: the request for more
next_request(R) ==
    [_ctrl |-> PutIf(R.batch, With(EmptyTable, "_seq", R._seq),
                     "_num", R._num),
     _data |-> TypeOnly("next")]

\* sequence.py 43-56: the first call, tell() having returned response
first_next(R, response) ==
    LET R1 == [R EXCEPT !.first = FALSE,
                        !.batch = Has(response["_ctrl"], "_batch")
                                  /\ R._num > 0]
    IN IF Has(response["_ctrl"], "_more")
       THEN IF Has(response["_ctrl"], "_seq")
            THEN finish([R1 EXCEPT !._seq = response["_ctrl"]["_seq"]],
                        <<R.request>>, response["_data"])
            ELSE Raised(R1, <<R.request>>, "BadSequence")
       ELSE finish([R1 EXCEPT !.done = TRUE], <<R.request>>,
                   response["_data"])

\* sequence.py 57-75: a later call, tell() having returned response
later_next(R, response) ==
    LET R1 == [R EXCEPT !.done = ~Has(response["_ctrl"], "_more")]
        l == response["_data"]["list"]
    IN IF R.batch /\ Has(response["_data"], "list")
       THEN IF ~l.islist
            THEN Raised(R1, <<next_request(R)>>, "BadSequence")
            ELSE IF Len(l.items) = 0
            THEN Raised(R1, <<next_request(R)>>, "StopIteration")
            ELSE finish([R1 EXCEPT !._datas = pop(Reverse(l.items)).rest],
                        <<next_request(R)>>, pop(Reverse(l.items)).item)
       ELSE finish(R1, <<next_request(R)>>, response["_data"])

\* sequence.py 38-80: next(); tell is what session.tell() does if it is
\* called: it returns response[1] or raises exc
__next__(R, tell) ==
    IF Len(R._datas) > 0
    THEN Returned([R EXCEPT !._datas = pop(@).rest], <<>>,
                  pop(R._datas).item)
    ELSE IF R.done THEN Raised(R, <<>>, "StopIteration")
    ELSE IF R.first
    THEN IF tell.exc # "none"
         THEN Raised([R EXCEPT !.first = FALSE], <<R.request>>, tell.exc)
         ELSE first_next(R, tell.response[1])
    ELSE IF tell.exc # "none"
    THEN Raised(R, <<next_request(R)>>, tell.exc)
    ELSE later_next(R, tell.response[1])

\* session.py 338-363: what session.tell(request, timeout, raise_error,
\* sequence_ok) gives for a full message when the peer's response is
\* tell.response, or when none comes within the timeout
tell_result(tell, raise_error, sequence_ok) ==
    get_response([RequestState(FALSE, raise_error, sequence_ok) EXCEPT
                     !.done = (tell.exc = "none"),
                     !.response = tell.response])

\* sequence.py 88-89: the request that ends the sequence
end_request(R) ==
    [_ctrl |-> With(With(EmptyTable, "_seq", R._seq), "_end", ONE),
     _data |-> TypeOnly("next")]

\* sequence.py 84-90: close().  With first still set no request was
\* assigned, and the call of tell(request, ...) at line 90 reads an
\* unbound local variable.
reader_close(R, tell) ==
    IF R.done THEN [reader |-> R, asked |-> <<>>, exc |-> "none"]
    ELSE IF R.first
    THEN [reader |-> [R EXCEPT !.done = TRUE], asked |-> <<>>,
          exc |-> "UnboundLocalError"]
    ELSE [reader |-> [R EXCEPT !.done = TRUE],
          asked |-> <<end_request(R)>>,
          exc |-> tell_result(tell, TRUE, FALSE).exc]

\* batch sizes given to session.sequence(): none, and a size
BatchSizes == {0, 2}

\* session.py 365-388: session.sequence(data, timeout, num)
NewSequence ==
    /\ sess.started
    /\ ~sess.seq.made
    /\ \E num \in BatchSizes, raise_error \in BOOLEAN :
          sess' = [sess EXCEPT
                     !.seq = [made |-> TRUE,
                              reader |-> NewReader("list", num, raise_error),
                              sent |-> <<>>, got |-> <<>>, out |-> <<>>,
                              closes |-> <<>>]]
    /\ UNCHANGED <<conn, ctor, sock, args, written, rd, wr>>

\* the _ctrl of the peer's response to the first request and to a
\* request for more
SeqCtrls(first) ==
    IF first
    THEN {Put(Put(Put(EmptyTable, "_more", m), "_batch", b), "_seq", q) :
             m \in {Absent, ONE}, b \in {Absent, ONE},
             q \in {Absent, str(7)}}
    ELSE {Put(With(EmptyTable, "_seq", str(7)), "_more", m) :
             m \in {Absent, ONE}}

\* data tables: an item, the table with the type alone, and an item
\* with err
Item(n) == With(TypeOnly("item"), "n", str(n))
Bare == TypeOnly("next")
ErrItem == With(TypeOnly("item"), "err", "refused")

\* the _data of the peer's responses
SeqDatas ==
    {Item(1), Bare, ErrItem}
    \cup {With(TypeOnly("list"), "list", l) :
              l \in {ListValue(<<>>), ListValue(<<Item(1), Item(2)>>),
                     ListValue(<<Bare, Item(1)>>),
                     ListValue(<<ErrItem, Item(1)>>),
                     ListValue(<<Item(1), ErrItem>>), NotAList}}

\* what session.tell() may do
Tells(first) ==
    {[exc |-> "Timeout", response |-> <<>>]}
    \cup {[exc |-> "none", response |-> <<[_ctrl |-> c, _data |-> d]>>] :
              c \in SeqCtrls(first), d \in SeqDatas}

\* a call that needs no tell()
NoTell == [exc |-> "none", response |-> <<>>]

\* this next() will call tell()
CallsTell(R) == Len(R._datas) = 0 /\ ~R.done

\* the iteration has ended: done, nothing left, StopIteration raised
Ended ==
    /\ sess.seq.reader.done
    /\ Len(sess.seq.reader._datas) = 0
    /\ Len(sess.seq.out) > 0
    /\ sess.seq.out[Len(sess.seq.out)].exc = "StopIteration"

\* one call of next()
NextCall ==
    /\ sess.seq.made
    /\ ~Ended
    /\ CallsTell(sess.seq.reader) => Len(sess.seq.sent) < MaxTells
    /\ \E t \in IF CallsTell(sess.seq.reader)
                 THEN Tells(sess.seq.reader.first) ELSE {NoTell} :
          \E n \in {__next__(sess.seq.reader, t)} :
              sess' = [sess EXCEPT
                         !.seq = [made |-> TRUE,
                                  reader |-> n.reader,
                                  sent |-> sess.seq.sent \o n.asked,
                                  got |-> IF n.asked = <<>> THEN sess.seq.got
                                          ELSE Append(sess.seq.got, t),
                                  out |-> Append(sess.seq.out,
                                                 [exc |-> n.exc,
                                                  value |-> n.value]),
                                  closes |-> sess.seq.closes]]
    /\ UNCHANGED <<conn, ctor, sock, args, written, rd, wr>>

\* the calls of close() that are followed
MaxSeqCloses == 2

\* one call of close(); before is the Reader as the call found it
CloseCall ==
    /\ sess.seq.made
    /\ Len(sess.seq.closes) < MaxSeqCloses
    /\ \E t \in IF sess.seq.reader.done \/ sess.seq.reader.first
                 THEN {NoTell} ELSE Tells(FALSE) :
          \E c \in {reader_close(sess.seq.reader, t)} :
              sess' = [sess EXCEPT
                         !.seq = [made |-> TRUE,
                                  reader |-> c.reader,
                                  sent |-> sess.seq.sent,
                                  got |-> sess.seq.got,
                                  out |-> sess.seq.out,
                                  closes |-> Append(sess.seq.closes,
                                      [before |-> sess.seq.reader,
                                       asked |-> c.asked,
                                       exc |-> c.exc])]]
    /\ UNCHANGED <<conn, ctor, sock, args, written, rd, wr>>

SeqNext == TellConnect \/ Start \/ NewSequence \/ NextCall \/ CloseCall

SpecSequence == ConnInit /\ [][SeqNext]_vars

\* the values next() has returned, in order, and the elements it holds
\* for the coming calls, in the order in which it will return them
IsValue(o) == o.exc = "none"
Delivered ==
    [i \in 1..Len(SelectSeq(sess.seq.out, IsValue)) |->
        SelectSeq(sess.seq.out, IsValue)[i].value[1]]
Pending == Reverse(sess.seq.reader._datas)

\* response k was received, and its _data has a list
Got(k) == sess.seq.got[k].exc = "none"
HasList(k) ==
    /\ Got(k)
    /\ Has(sess.seq.got[k].response[1]["_data"], "list")
    /\ sess.seq.got[k].response[1]["_data"]["list"].islist

\* a is b with some elements left out
RECURSIVE IsSubseq(_, _)
IsSubseq(a, b) ==
    IF Len(a) = 0 THEN TRUE
    ELSE IF Len(b) = 0 THEN FALSE
    ELSE IF Head(a) = Head(b) THEN IsSubseq(Tail(a), Tail(b))
    ELSE IsSubseq(a, Tail(b))

\* the elements of the lists of the first k responses
RECURSIVE ListElements(_)
ListElements(k) ==
    IF k = 0 THEN <<>>
    ELSE ListElements(k - 1)
         \o (IF HasList(k)
             THEN sess.seq.got[k].response[1]["_data"]["list"].items
             ELSE <<>>)

\* response k is one the Reader accepts: with _more it names the
\* sequence, and what it has under 'list' is a list
WellFormed(k) ==
    /\ Got(k)
    /\ (k = 1 /\ Has(sess.seq.got[k].response[1]["_ctrl"], "_more"))
          => Has(sess.seq.got[k].response[1]["_ctrl"], "_seq")
    /\ Has(sess.seq.got[k].response[1]["_data"], "list") => HasList(k)

\* tell() has returned every time, with a response the Reader accepts
Conforming ==
    /\ sess.seq.made
    /\ \A k \in 1..Len(sess.seq.got) : WellFormed(k)

\* response k brings no err, in its _data or in an element of its list
ErrFree(k) ==
    /\ ~Has(sess.seq.got[k].response[1]["_data"], "err")
    /\ HasList(k) =>
          \A e \in 1..Len(sess.seq.got[k].response[1]["_data"]["list"].items) :
              ~Has(sess.seq.got[k].response[1]["_data"]["list"].items[e],
                   "err")

\* an iteration that was not cut short: no response brought err and
\* close() was not called
Uncut ==
    /\ Conforming
    /\ Len(sess.seq.closes) = 0
    /\ \A k \in 1..Len(sess.seq.got) : ErrFree(k)

\* C19 as stated: in a batched sequence (the first response carries
\* _batch and the batch size is above 0) every element of the list of
\* every response, the first response included, is returned by a next()
\* call of its own, in list order, and every request for more carries
\* _num equal to the batch size.
C19_AsStated ==
    (Uncut /\ sess.seq.reader.batch) =>
        /\ IsSubseq(ListElements(Len(sess.seq.got)), Delivered \o Pending)
        /\ \A k \in 2..Len(sess.seq.sent) :
              /\ Has(sess.seq.sent[k]["_ctrl"], "_num")
              /\ sess.seq.sent[k]["_ctrl"]["_num"] = sess.seq.reader._num

Terminal(k) == Got(k) /\ ~Has(sess.seq.got[k].response[1]["_ctrl"], "_more")

\* response k is taken as a batch: its list is split into items
Batch(k) == sess.seq.reader.batch /\ k > 1 /\ HasList(k)

\* the data items response k carries: the elements of its list when it
\* answers a request for more of a batched sequence, else its _data
Carried(k) ==
    IF Batch(k)
    THEN sess.seq.got[k].response[1]["_data"]["list"].items
    ELSE <<sess.seq.got[k].response[1]["_data"]>>

\* the one suppression: a terminal _data of one key that is not a batch
MaySuppress(k) ==
    /\ Terminal(k)
    /\ ~Batch(k)
    /\ len(sess.seq.got[k].response[1]["_data"]) = 1

\* the items that the first k responses carry and that are to be yielded
RECURSIVE ToYield(_)
ToYield(k) ==
    IF k = 0 THEN <<>>
    ELSE ToYield(k - 1)
         \o (IF WellFormed(k) /\ ~MaySuppress(k) THEN Carried(k) ELSE <<>>)

\* C20 as stated: next() raises StopIteration only after a response
\* without _more was received and every data item it carried was
\* yielded; after a response without _more no request is sent; and no
\* data item is left out except a terminal _data of exactly one key that
\* is not a batch.
C20_AsStated ==
    Uncut =>
        /\ (/\ Len(sess.seq.out) > 0
            /\ sess.seq.out[Len(sess.seq.out)].exc = "StopIteration")
               => /\ \E k \in 1..Len(sess.seq.got) : Terminal(k)
                  /\ Len(Pending) = 0
                  /\ IsSubseq(ToYield(Len(sess.seq.got)), Delivered)
        /\ \A k \in 1..Len(sess.seq.got) :
              Terminal(k) => k = Len(sess.seq.sent)
        /\ IsSubseq(ToYield(Len(sess.seq.got)), Delivered \o Pending)

\* C21 as stated: with raise_error true, next() never returns a _data
\* item that has err, whatever the item's place in a batch.
C21_AsStated ==
    (sess.seq.made /\ sess.seq.reader.raise_error) =>
        \A i \in 1..Len(sess.seq.out) :
            sess.seq.out[i].exc = "none" =>
                ~Has(sess.seq.out[i].value[1], "err")

\* C22 as stated: close() on a Reader that is not done marks it done and,
\* if a request of the sequence was sent before, sends one next request
\* with the sequence's _seq and _end = 1; if no request was sent yet, or
\* the Reader is done already, close() sends nothing and returns
\* normally.
C22_AsStated ==
    sess.seq.made =>
        /\ Len(sess.seq.closes) > 0 => sess.seq.reader.done
        /\ \A i \in 1..Len(sess.seq.closes) :
              IF sess.seq.closes[i].before.done
                 \/ sess.seq.closes[i].before.first
              THEN /\ sess.seq.closes[i].asked = <<>>
                   /\ sess.seq.closes[i].exc = "none"
              ELSE /\ Len(sess.seq.closes[i].asked) = 1
                   /\ sess.seq.closes[i].asked[1]["_data"] = TypeOnly("next")
                   /\ sess.seq.closes[i].asked[1]["_ctrl"]["_seq"]
                         = sess.seq.closes[i].before._seq
                   /\ sess.seq.closes[i].asked[1]["_ctrl"]["_end"] = ONE

(***************************************************************************)
(* The Dispatcher (dispatcher.py) as the session's dispatch callback, and  *)
(* the session's registry of server-side sequences (session.py 390-415).   *)
(* sess.disp holds the Dispatcher; a handler's action is known by name.    *)
(* nomcc.handler and the server-side sequence objects are not among the    *)
(* sources: BasicHandler, ActionHandler and next_message follow the        *)
(* written description of the dispatcher and of server-side sequences.     *)
(***************************************************************************)
\* kind = None, selector = None, no fallback
NoKind == "None"
NoFilter == <<>>
NoAction == <<>>

\* the text of a byte string of digits
RECURSIVE Chars(_)
Chars(s) == IF Len(s) = 0 THEN "" ELSE s[1] \o Chars(Tail(s))

\* the words type names are made of, and what follows the first dot
Words == {"next", "ping", "zone", "view"}
Rests == {"load", "drop"}

\* str.join on '.'
Join(parts) ==
    IF Len(parts) = 1 THEN parts[1] ELSE parts[1] \o "." \o parts[2]

\* dispatcher.py 58, 83: mtype.split('.', 1), the one list of a word
\* without a dot and, if there is a dot, the rest, that joins to mtype
split(mtype) ==
    CHOOSE parts \in {<<w>> : w \in Words}
                     \cup {<<w, r>> : w \in Words, r \in Rests} :
        Join(parts) = mtype

\* nomcc.handler.BasicHandler(action, filter, kind), the filter being
\* None or DataFilter({'type': selector})
BasicHandler(action, filter, k) ==
    [mapped |-> FALSE, action |-> action, filter |-> filter, kind |-> k]

\* a nomcc.handler.MappedHandler with its handler_map
MappedHandler(handler_map) == [mapped |-> TRUE, handler_map |-> handler_map]

\* dict.get(key, []) on a handler map
MapGet(map, key) == IF key \in DOMAIN map THEN map[key] ELSE <<>>

\* dispatcher.py 80-86
_maybe_remember_class(D, key) ==
    IF key[1] # "request" THEN D
    ELSE IF Len(split(key[2])) > 1
    THEN [D EXCEPT !._classes = @ \cup {split(key[2])[1]}]
    ELSE D

\* dispatcher.py 95-99, 105-109: handlers added under key
map_extend(D, key, handlers) ==
    [D EXCEPT !._handler_map =
        [x \in (DOMAIN @) \cup {key} |->
            IF x = key THEN MapGet(@, key) \o handlers ELSE @[x]]]

\* dispatcher.py 103-109
add_mapped_handler(D, key, handler) ==
    map_extend(_maybe_remember_class(D, key), key, <<handler>>)

\* dispatcher.py 93-99: the keys of a handler_map, one after the other
RECURSIVE add_map(_, _, _)
add_map(D, map, keys) ==
    IF keys = {} THEN D
    ELSE LET key == CHOOSE x \in keys : TRUE
         IN add_map(map_extend(_maybe_remember_class(D, key), key, map[key]),
                    map, keys \ {key})

\* dispatcher.py 88-101
add_handler(D, handler) ==
    IF handler.mapped
    THEN add_map(D, handler.handler_map, DOMAIN handler.handler_map)
    ELSE [D EXCEPT !._handlers = Append(@, handler)]

\* dispatcher.py 111-193: handle(action, selector, kind) for a selector
\* that is a type string or None (NoFilter)
handle(D, action, selector, k) ==
    IF selector # NoFilter /\ k = NoKind
    THEN add_mapped_handler(D, <<k, selector[1]>>, action)
    ELSE add_handler(D, BasicHandler(action, selector, k))

\* dispatcher.py 220-237
fallback(D, action, k) ==
    IF k # NoKind
    THEN [D EXCEPT !._fallback_by_type =
             [x \in (DOMAIN @) \cup {k} |-> action]]
    ELSE [D EXCEPT !._fallback = <<action>>]

\* dispatcher.py 29-35
NewDispatcher ==
    handle([made |-> TRUE, _handlers |-> <<>>,
            _handler_map |-> [x \in {} |-> <<>>], _classes |-> {},
            _fallback |-> NoAction,
            _fallback_by_type |-> [x \in {} |-> ""]],
           "_handle_next", <<"next">>, "request")

\* a sequence id the session handed out before
add_sequence_reuse(s, sequence) ==
    [id |-> str(Cardinality(DOMAIN s.sequences) + 1),
     sess |-> [s EXCEPT
                 !.sequences =
                     With(@, str(Cardinality(DOMAIN s.sequences) + 1),
                          sequence),
                 !.issued =
                     Append(@, str(Cardinality(DOMAIN s.sequences) + 1))]]

\* session.py 390-399; issued keeps the ids returned so far
add_sequence(s, sequence) ==
    [id |-> str(s.next_id),
     sess |-> [s EXCEPT !.next_id = @ + 1,
                        !.sequences = With(@, str(s.next_id), sequence),
                        !.issued = Append(@, str(s.next_id))]]

\* session.py 401-410 for an id that is registered; the sequence's
\* close() is the sequence object's affair
delete_sequence(s, id) == [s EXCEPT !.sequences = Without(@, id)]

\* session.py 412-415: None (no entry) is the empty tuple here
get_sequence(s, id) ==
    IF Has(s.sequences, id) THEN <<s.sequences[id]>> ELSE <<>>

\* a server-side sequence object that has `left` items to give
ServerSequence(name, left) == [name |-> name, left |-> left]

\* sequence.next_message(request) -> (response, done): the next part of
\* the reply; it is the last one when the items run out or when the
\* request carries _end
next_message(sequence, request) ==
    Pick({ [done |-> done,
            sequence |-> [sequence EXCEPT !.left = @ - 1],
            response |->
                [_ctrl |-> PutIf(~done, reply_to(request)["_ctrl"],
                                 "_more", ONE),
                 _data |-> With(reply_to(request)["_data"], "from",
                                sequence.name)]]
         : done \in {sequence.left <= 1 \/ Has(request["_ctrl"], "_end")} })

\* what a handler's call gives: the session after it, the value returned
\* or the exception raised, and the actions that were invoked
Done(s, ret, calls) ==
    [sess |-> s, ret |-> ret, exc |-> "none", text |-> "", calls |-> calls]
Failed(s, exc, text, calls) ==
    [sess |-> s, ret |-> FALSE, exc |-> exc, text |-> text, calls |-> calls]

\* session.write(response) from inside a handler
handler_write(s, response, calls) ==
    Pick({ IF w.exc # "none" THEN Failed(s, w.exc, "", calls)
           ELSE Done(w.sess, TRUE, calls)
         : w \in {session_write(s, response, None)} })

\* dispatcher.py 201-215
_handle_next(s, request) ==
    IF ~Has(request["_ctrl"], "_seq")
    THEN Failed(s, "Exception", "_seq missing", <<>>)
    ELSE IF get_sequence(s, request["_ctrl"]["_seq"]) = <<>>
    THEN Failed(s, "Exception",
                "unknown sequence id: " \o Chars(request["_ctrl"]["_seq"]),
                <<>>)
    ELSE Pick({ handler_write(
                    IF n.done
                    THEN delete_sequence(s, request["_ctrl"]["_seq"])
                    ELSE [s EXCEPT !.sequences =
                             With(@, request["_ctrl"]["_seq"], n.sequence)],
                    n.response,
                    <<[action |-> "next_message",
                       on |-> s.sequences[request["_ctrl"]["_seq"]].name]>>)
              : n \in {next_message(
                           get_sequence(s, request["_ctrl"]["_seq"])[1],
                           request)} })

\* the actions that handlers are made with: the built-in one, one that
\* handles the message (returns True), one that only looks (returns False)
UserActions == {"serve", "watch"}

\* action(session, message)
invoke(action, s, message) ==
    IF action = "_handle_next"
    THEN Pick({ [h EXCEPT !.calls =
                    <<[action |-> "_handle_next", on |-> ""]>> \o @]
              : h \in {_handle_next(s, message)} })
    ELSE Done(s, action = "serve", <<[action |-> action, on |-> ""]>>)

\* BasicHandler.__call__(session, message, kind): the action is invoked
\* when kind and filter match, and its value is the handler's
basic_call(handler, s, message, k) ==
    IF /\ handler.kind \in {NoKind, k}
       /\ \/ handler.filter = NoFilter
          \/ /\ Has(message["_data"], "type")
             /\ message["_data"]["type"] = handler.filter[1]
    THEN invoke(handler.action, s, message)
    ELSE Done(s, FALSE, <<>>)

\* dispatcher.py 47-49 and 52-54: the handlers are called in order; an
\* exception of one ends the loop.  acc is what the calls made so far gave
\* and handled the flag; a handler of the list (basic true) or of the map
RECURSIVE run(_, _, _, _, _, _)
run(handlers, acc, handled, message, k, basic) ==
    IF handlers = <<>> THEN [acc EXCEPT !.ret = handled]
    ELSE Pick({ IF h.exc # "none" THEN h
                ELSE run(Tail(handlers), h, handled \/ h.ret, message, k,
                         basic)
              : h \in {[c EXCEPT !.calls = acc.calls \o @] :
                          c \in {IF basic
                                 THEN basic_call(Head(handlers), acc.sess,
                                                 message, k)
                                 ELSE invoke(Head(handlers), acc.sess,
                                             message)}} })

\* dispatcher.py 58-67: the error for a request nobody handled
object_error(D, message) ==
    LET parts == split(message["_data"]["type"])
    IN IF parts[1] \in D._classes
       THEN error(message, "unknown command '" \o parts[2]
                           \o "' on object '" \o parts[1] \o "'")
       ELSE error(message, "unknown object '" \o parts[1] \o "'")

\* dispatcher.py 68-75
fall_back(D, h, message, k) ==
    IF h.ret THEN h
    ELSE IF k \in DOMAIN D._fallback_by_type
    THEN [h EXCEPT !.ret = TRUE,
                   !.calls = @ \o <<[action |-> D._fallback_by_type[k],
                                     on |-> "fallback"]>>]
    ELSE IF D._fallback # NoAction
    THEN [h EXCEPT !.ret = TRUE,
                   !.calls = @ \o <<[action |-> D._fallback[1],
                                     on |-> "fallback"]>>]
    ELSE h

\* dispatcher.py 50-67: the message has a type; h1 is what the handlers
\* of the list gave
typed(D, h1, message, k) ==
    Pick({ IF h2.exc # "none" THEN h2
           ELSE IF /\ ~h2.ret
                   /\ k = "request"
                   /\ Len(split(message["_data"]["type"])) > 1
           THEN Pick({ IF w.exc # "none" THEN w
                       ELSE [w EXCEPT !.calls = h2.calls]
                     : w \in {handler_write(h2.sess,
                                  object_error(D, message), <<>>)} })
           ELSE fall_back(D, h2, message, k)
         : h2 \in {run(MapGet(D._handler_map,
                              <<k, message["_data"]["type"]>>),
                       h1, h1.ret, message, k, FALSE)} })

\* dispatcher.py 37-75: Dispatcher.__call__(session, message, state)
dispatch(D, s, message) ==
    Pick({ IF h1.exc # "none" THEN h1
           ELSE IF ~Has(message["_data"], "type")
           THEN fall_back(D, h1, message, kind(message))
           ELSE typed(D, h1, message, kind(message))
         : h1 \in {run(D._handlers, Done(s, FALSE, <<>>), FALSE, message,
                       kind(message), TRUE)} })

\* session.py 100-140 with the Dispatcher as callback: one pass of the
\* reader's loop
serve(s, r) ==
    IF r.exc # "none" \/ r.state # None THEN _reader(s, r, NoDispatch)
    ELSE Pick({ IF h.exc \in Reraised THEN reader_exit(h.sess)
                ELSE IF h.exc # "none"
                THEN reader_raised(h.sess, r.returned[1], h.text)
                ELSE _reader(h.sess, r, IF h.ret THEN "True" ELSE "False")
              : h \in {dispatch(s.disp, s, r.returned[1])} })

\* a server's connection: the peer's handshake request is read
ServerConnect ==
    Construct(NoSecret, TRUE, DESIRED, 1,
              HsRequest(str(0), str(1), str(1), Absent, Absent))

\* Dispatcher(), to be given to the Session as its dispatch callback
MakeDispatcher ==
    /\ ~sess.disp.made
    /\ ~sess.started
    /\ sess' = [sess EXCEPT !.disp = NewDispatcher]
    /\ UNCHANGED <<conn, ctor, sock, args, written, rd, wr>>

\* the reader gets `input` from the socket and calls the Dispatcher; rd
\* keeps which actions were invoked in this pass
ReaderServes(input) ==
    /\ sess.reader = "run"
    /\ sess.disp.made
    /\ \E r \in {read(conn, sock, input)} :
          /\ conn' = r.conn
          /\ rd' = [n |-> rd.n + 1, call |-> r, asked |-> Len(sess.states),
                    calls |-> IF r.exc = "none" /\ r.state = None
                              THEN dispatch(sess.disp, sess,
                                            r.returned[1]).calls
                              ELSE <<>>]
          /\ sess' = serve(sess, r)
    /\ UNCHANGED <<ctor, sock, args, written, wr>>

\* sequences registered on one session, and requests served
MaxSeqs == 2
MaxServed == 3

\* a handler starts a sequence: session.add_sequence(sequence)
AddSequence ==
    /\ sess.started
    /\ sess.disp.made
    /\ Len(sess.issued) < MaxSeqs
    /\ \E left \in 1..2 :
          sess' = add_sequence(sess,
                      ServerSequence("q" \o Chars(str(Len(sess.issued) + 1)),
                                     left)).sess
    /\ UNCHANGED <<conn, ctor, sock, args, written, rd, wr>>

\* the peer's next requests: without _seq, for an id that may be
\* registered, with and without _end
NextCtrls(c) ==
    {Put(Put(GoodCtrl(c), "_seq", q), "_end", e) :
        q \in {Absent} \cup {str(i) : i \in 1..(MaxSeqs + 1)},
        e \in {Absent, ONE}}

\* the reader reads a next request and the Dispatcher routes it
ReaderNext ==
    /\ sess.reader = "run"
    /\ Reads < MaxServed
    /\ \E ctrl \in NextCtrls(conn) :
          ReaderServes(Frame(conn.secret, EnvFor(conn), ctrl,
                             TypeOnly("next")))

ServeNext ==
    \/ ServerConnect \/ MakeDispatcher \/ Start \/ AddSequence
    \/ ReaderNext

SpecServe == ConnInit /\ [][ServeNext]_vars

\* this step is a pass of the reader's loop in which a next request was
\* read
NextPass == ReaderPass /\ rd'.call.returned[1]["_data"] = TypeOnly("next")

\* next_message was called in the pass, on the sequence object `name`
RoutedTo(name) ==
    \E i \in 1..Len(rd'.calls) :
        rd'.calls[i] = [action |-> "next_message", on |-> name]
Routed ==
    \E i \in 1..Len(rd'.calls) : rd'.calls[i].action = "next_message"

MaxRegs == 2
MaxRouted == 1

\* the type names that handlers are registered for
Selectors == {"zone.load"}

\* a registration call; sess.regs keeps the calls made, each with the
\* kind and the type it names
Register(reg, D) ==
    /\ sess.disp.made
    /\ Len(sess.regs) < MaxRegs
    /\ sess' = [sess EXCEPT !.disp = D, !.regs = Append(@, reg)]
    /\ UNCHANGED <<conn, ctor, sock, args, written, rd, wr>>

\* Dispatcher.handle(action, selector, kind)
CallHandle ==
    \E action \in UserActions, k \in {"request", NoKind},
       selector \in {NoFilter} \cup {<<t>> : t \in Selectors} :
        Register([call |-> "handle", action |-> action, kind |-> k,
                  selector |-> selector],
                 handle(sess.disp, action, selector, k))

\* Dispatcher.add_mapped_handler(key, handler)
CallAddMapped ==
    \E k \in {"request", "event"}, t \in Selectors :
        Register([call |-> "add_mapped_handler", action |-> "serve",
                  kind |-> k, selector |-> <<t>>],
                 add_mapped_handler(sess.disp, <<k, t>>, "serve"))

\* Dispatcher.add_handler(handler) with a MappedHandler
CallAddHandler ==
    Register([call |-> "add_handler", action |-> "watch",
              kind |-> "request", selector |-> <<"view.load">>],
             add_handler(sess.disp,
                 MappedHandler([x \in {<<"request", "view.load">>} |->
                                   <<"watch">>])))

\* Dispatcher.fallback(action, kind)
CallFallback ==
    \E k \in {"request", NoKind} :
        Register([call |-> "fallback", action |-> "serve", kind |-> k,
                  selector |-> NoFilter],
                 fallback(sess.disp, "serve", k))

\* the _data of what the peer sends
RoutedTypes == {"zone.load", "zone.drop", "view.drop", "ping"}

\* the reader reads a request, an event or a response to a request that
\* is outstanding, and the Dispatcher routes it
ReaderRoute ==
    /\ sess.reader = "run"
    /\ Reads < MaxRouted
    /\ \E ctrl \in PeerCtrls(conn), t \in RoutedTypes :
          ReaderServes(Frame(conn.secret, EnvFor(conn), ctrl, TypeOnly(t)))

RouteNext ==
    \/ ServerConnect \/ MakeDispatcher \/ Start
    \/ CallHandle \/ CallAddMapped \/ CallAddHandler \/ CallFallback
    \/ ReaderRoute

SpecRoute == ConnInit /\ [][RouteNext]_vars

\* a handler handled the message of this pass: an action that returns
\* True was invoked by a handler
Handled ==
    \E i \in 1..Len(rd'.calls) :
        /\ rd'.calls[i].on # "fallback"
        /\ rd'.calls[i].action \in {"serve", "_handle_next"}

\* a registration call was made for requests of a type of object obj
RegisteredFor(obj) ==
    \E i \in 1..Len(sess.regs) :
        /\ sess.regs[i].kind = "request"
        /\ sess.regs[i].selector # NoFilter
        /\ Len(split(sess.regs[i].selector[1])) > 1
        /\ split(sess.regs[i].selector[1])[1] = obj

\* C24 as stated: for an inbound request of type obj.method that no
\* handler handles the Dispatcher writes an error response, with err =
\* "unknown command 'method' on object 'obj'" if a handler was registered
\* for a request type of object obj through any registration call,
\* handle() included, and with err = "unknown object 'obj'" otherwise.
C24_AsStated ==
    [][(/\ ReaderPass
        /\ is_request(rd'.call.returned[1])
        /\ Len(split(rd'.call.returned[1]["_data"]["type"])) > 1
        /\ ~Handled)
       => IF RegisteredFor(split(rd'.call.returned[1]["_data"]["type"])[1])
          THEN Replied("unknown command '"
                       \o split(rd'.call.returned[1]["_data"]["type"])[2]
                       \o "' on object '"
                       \o split(rd'.call.returned[1]["_data"]["type"])[1]
                       \o "'")
          ELSE Replied("unknown object '"
                       \o split(rd'.call.returned[1]["_data"]["type"])[1]
                       \o "'")]_vars

\* C25 as stated: a handler installed with handle(action, selector,
\* kind=None), the selector being a type string, is invoked for every
\* dispatched message whose _data.type is the selector, of whatever kind.
C25_AsStated ==
    [][ReaderPass =>
          \A i \in 1..Len(sess.regs) :
              (/\ sess.regs[i].call = "handle"
               /\ sess.regs[i].kind = NoKind
               /\ sess.regs[i].selector
                      = <<rd'.call.returned[1]["_data"]["type"]>>)
              => \E j \in 1..Len(rd'.calls) :
                     rd'.calls[j].action = sess.regs[i].action]_vars

(***************************************************************************)
(* The closer's timers (closer.py): the idle timeout and the lifetime of   *)
(* a ThreadedCloser, with the clock as a number that grows.  sess.timer    *)
(* holds the object's fields, the clock (now), where the closer thread is  *)
(* (pc) and, for the properties, when the timers were set (touched,        *)
(* born), why the close began (by), how often the closer woke before a     *)
(* deadline that had moved (early), how many callbacks were registered     *)
(* when _do_close() began (before) and the callbacks invoked, in order.    *)
(***************************************************************************)
\* the clock's last value
MaxTime == 4

\* None for a time, and a time
NoTime == <<>>
At(t) == <<t>>

\* closer.py 63-75 and 159-160: the object with its closer thread started
NewCloser ==
    [made |-> TRUE, now |-> 0, _closing |-> FALSE, _idletime |-> NoTime,
     _idle_timeout |-> NoTime, _life_timeout |-> NoTime,
     _closer_timeout |-> NoTime, pc |-> "run", wake |-> NoTime,
     notified |-> FALSE, closed |-> FALSE,
     touched |-> 0, lifetime |-> NoTime, born |-> 0, by |-> "none",
     early |-> 0, _at_close |-> <<>>, it |-> 0, _close_done |-> FALSE,
     before |-> 0, invoked |-> <<>>]

\* _wake_closer.notify(): it wakes the closer if it waits
timer_notify(t) == IF t.pc = "sleep" THEN [t EXCEPT !.notified = TRUE] ELSE t

\* timer changes that never wake the closer
_maybe_wake_closer_never(t, timeout) == t

\* closer.py 116-122
_maybe_wake_closer(t, timeout) ==
    IF timeout = NoTime THEN t
    ELSE IF t._closer_timeout = NoTime \/ timeout[1] < t._closer_timeout[1]
    THEN timer_notify(t)
    ELSE t

\* closer.py 124-131
set_lifetime(t, lifetime) ==
    Pick({ _maybe_wake_closer(t1, t1._life_timeout)
         : t1 \in {[t EXCEPT
                      !._life_timeout = IF lifetime # NoTime
                                        THEN At(t.now + lifetime[1])
                                        ELSE NoTime,
                      !.lifetime = lifetime, !.born = t.now]} })

\* closer.py 133-139
_not_idle(t) ==
    Pick({ _maybe_wake_closer(t1, t1._idle_timeout)
         : t1 \in {[t EXCEPT
                      !._idle_timeout = IF t._idletime # NoTime
                                        THEN At(t.now + t._idletime[1])
                                        ELSE NoTime,
                      !.touched = t.now]} })

\* closer.py 149-157
set_idletime(t, idletime) == _not_idle([t EXCEPT !._idletime = idletime])

\* closer.py 95-105
timer_request_close(t) ==
    IF t._closing THEN t
    ELSE timer_notify([t EXCEPT !._closing = TRUE, !.by = "request"])

\* closer.py 46-51: the earlier of the two timeouts
sleep_until(t) ==
    IF t._idle_timeout = NoTime THEN t._life_timeout
    ELSE IF t._life_timeout = NoTime THEN t._idle_timeout
    ELSE IF t._life_timeout[1] < t._idle_timeout[1] THEN t._life_timeout
    ELSE t._idle_timeout

\* a closer that closes when the time it slept towards has come
closer_pass_stale(t) ==
    IF t._closing THEN [t EXCEPT !.pc = "closing"]
    ELSE IF t._closer_timeout # NoTime /\ t.now >= t._closer_timeout[1]
    THEN [t EXCEPT !._closing = TRUE, !.by = "idle"]
    ELSE IF t._idle_timeout # NoTime /\ t.now >= t._idle_timeout[1]
    THEN [t EXCEPT !._closing = TRUE, !.by = "idle"]
    ELSE IF t._life_timeout # NoTime /\ t.now >= t._life_timeout[1]
    THEN [t EXCEPT !._closing = TRUE, !.by = "life"]
    ELSE [t EXCEPT !._closer_timeout = sleep_until(t),
                   !.wake = sleep_until(t), !.pc = "sleep",
                   !.notified = FALSE]

\* closer.py 32-60: one pass of the closer's loop, under the lock, up to
\* the wait; with _closing set the loop is left for _do_close()
closer_pass(t) ==
    IF t._closing THEN [t EXCEPT !.pc = "closing"]
    ELSE IF t._idle_timeout # NoTime /\ t.now >= t._idle_timeout[1]
    THEN [t EXCEPT !._closing = TRUE, !.by = "idle"]
    ELSE IF t._life_timeout # NoTime /\ t.now >= t._life_timeout[1]
    THEN [t EXCEPT !._closing = TRUE, !.by = "life"]
    ELSE [t EXCEPT !._closer_timeout = sleep_until(t),
                   !.wake = sleep_until(t), !.pc = "sleep",
                   !.notified = FALSE]

\* a step on the timers
TimerStep(t) ==
    /\ sess' = [sess EXCEPT !.timer = t]
    /\ UNCHANGED <<conn, ctor, sock, args, written, rd, wr>>

MakeCloser == ~sess.timer.made /\ TimerStep(NewCloser)

\* time passes
Tick ==
    /\ sess.timer.made
    /\ sess.timer.now < MaxTime
    /\ TimerStep([sess.timer EXCEPT !.now = @ + 1])

\* the times given to set_idletime() and set_lifetime()
Spans == {NoTime, At(1), At(2)}

CallSetLifetime ==
    /\ sess.timer.made /\ ~sess.timer.closed
    /\ \E l \in Spans : TimerStep(set_lifetime(sess.timer, l))

CallSetIdletime ==
    /\ sess.timer.made /\ ~sess.timer.closed
    /\ \E i \in Spans : TimerStep(set_idletime(sess.timer, i))

CallNotIdle ==
    /\ sess.timer.made /\ ~sess.timer.closed
    /\ TimerStep(_not_idle(sess.timer))

CallRequestClose ==
    /\ sess.timer.made /\ ~sess.timer.closed
    /\ TimerStep(timer_request_close(sess.timer))

\* the closer thread has the lock and runs its loop once
CloserPass ==
    /\ sess.timer.made
    /\ sess.timer.pc = "run"
    /\ TimerStep(closer_pass(sess.timer))

\* closer.py 59: wait(sleep) returns, on notify() or when the time has
\* come; early counts the returns at a time that is no deadline any more
CloserWake ==
    /\ sess.timer.made
    /\ sess.timer.pc = "sleep"
    /\ IF sess.timer.notified THEN TRUE
       ELSE IF sess.timer.wake = NoTime THEN FALSE
       ELSE sess.timer.now >= sess.timer.wake[1]
    /\ TimerStep([sess.timer EXCEPT
                    !.pc = "run", !.notified = FALSE,
                    !.early = IF /\ ~sess.timer.notified
                                 /\ ~sess.timer._closing
                                 /\ sess.timer.early = 0
                                 /\ closer_pass(sess.timer).pc = "sleep"
                              THEN 1 ELSE @])

\* closer.py 60, 85-89 for an object without callbacks
CloserDoClose ==
    /\ sess.timer.made
    /\ sess.timer.pc = "closing"
    /\ Len(sess.timer._at_close) = 0
    /\ TimerStep([sess.timer EXCEPT !.pc = "done", !._close_done = TRUE,
                                    !.closed = TRUE])

\* callbacks registered on one object
MaxCallbacks == 2

\* the callbacks that are registered
Callbacks == {"a", "b"}

\* closer.py 91-93
at_close(t, callback) == [t EXCEPT !._at_close = Append(@, callback)]

CallAtClose ==
    /\ sess.timer.made
    /\ Len(sess.timer._at_close) < MaxCallbacks
    /\ \E callback \in Callbacks : TimerStep(at_close(sess.timer, callback))

\* closer.py 60 and 86: the loop is left, _do_close() calls _close(),
\* which returns
CloserClose ==
    /\ sess.timer.made
    /\ sess.timer.pc = "closing"
    /\ TimerStep([sess.timer EXCEPT
                    !.pc = "set", !._close_done = TRUE,
                    !.before = Len(sess.timer._at_close)])

\* closer.py 87: closed.set()
CloserSet ==
    /\ sess.timer.made
    /\ sess.timer.pc = "set"
    /\ TimerStep([sess.timer EXCEPT !.pc = "iter", !.closed = TRUE])

\* closer.py 88: reversed(self._at_close), an iterator that starts at
\* the last element the list has now
reversed(t) ==
    [t EXCEPT !.it = Len(t._at_close),
              !.pc = IF Len(t._at_close) = 0 THEN "done" ELSE "loop"]

\* the next callback of a loop that goes forward
next_callback_forward(t) ==
    [t EXCEPT !.invoked = Append(@, t._at_close[t.it]),
              !.it = @ + 1,
              !.pc = IF t.it >= Len(t._at_close) THEN "done" ELSE "loop"]

\* closer.py 88-89: the iterator gives the element it stands at and
\* steps back, and the callback is called and returns
next_callback(t) ==
    [t EXCEPT !.invoked = Append(@, t._at_close[t.it]),
              !.it = @ - 1,
              !.pc = IF t.it = 1 THEN "done" ELSE "loop"]

CloserIter ==
    /\ sess.timer.made
    /\ sess.timer.pc = "iter"
    /\ TimerStep(reversed(sess.timer))

CloserCallback ==
    /\ sess.timer.made
    /\ sess.timer.pc = "loop"
    /\ TimerStep(next_callback(sess.timer))

TimerNext ==
    \/ MakeCloser \/ Tick \/ CallSetLifetime \/ CallSetIdletime
    \/ CallNotIdle \/ CallRequestClose \/ CloserPass \/ CloserWake
    \/ CloserDoClose

SpecTimers == ConnInit /\ [][TimerNext]_vars

\* the deadlines as the callers set them: the time of the last not_idle()
\* or set_idletime() plus the idle time, and the time of the last
\* set_lifetime() plus the lifetime
IdleDue(t) == t._idletime # NoTime /\ t.now >= t.touched + t._idletime[1]
LifeDue(t) == t.lifetime # NoTime /\ t.now >= t.born + t.lifetime[1]

\* C26: when the closer begins a close that request_close() did not ask
\* for, the clock has reached the idle deadline or the lifetime deadline
\* as they stand at that time; a deadline that was moved while the closer
\* slept towards the older one does not bring the close about.
C26_NoEarlyClose ==
    [][(/\ sess.timer.made
        /\ sess'.timer._closing
        /\ ~sess.timer._closing
        /\ sess'.timer.by # "request")
       => IdleDue(sess.timer) \/ LifeDue(sess.timer)]_vars

\* C26 witness: the closer woke at a time that was a deadline when it
\* went to sleep and no longer was, slept again, and has begun the close
\* at the idle deadline.
C26_Witness ==
    /\ sess.timer.made
    /\ sess.timer.early = 1
    /\ sess.timer.by = "idle"
    /\ sess.timer._closing
    /\ IdleDue(sess.timer)

\* the close with its callbacks, asked for by request_close(): the
\* callers register callbacks at any time, before, during and after it
AtCloseNext ==
    \/ MakeCloser \/ CallAtClose \/ CallRequestClose
    \/ CloserPass \/ CloserWake
    \/ CloserClose \/ CloserSet \/ CloserIter \/ CloserCallback

SpecAtClose == ConnInit /\ [][AtCloseNext]_vars

Bytes(b) == [ty |-> "bytes", b |-> b, items |-> <<>>]
Str(b) == [ty |-> "str", b |-> b, items |-> <<>>]
Table(items) == [ty |-> "table", b |-> <<>>, items |-> items]
List(items) == [ty |-> "list", b |-> <<>>, items |-> items]
Entry(key, value) == [key |-> key, value |-> value]

\* wire.py 40-42
cc_vtype_binarydata == 1
cc_vtype_table == 2
cc_vtype_list == 3

\* a byte that continues a character of more than one byte, and a byte
\* that begins a character of two bytes
IsContinuation(x) == x >= 128 /\ x <= 191
IsLead2(x) == x >= 194 /\ x <= 223

\* bytes.decode('utf8') succeeds, for texts of characters of one and two
\* bytes
RECURSIVE Utf8(_)
Utf8(b) ==
    IF Len(b) = 0 THEN TRUE
    ELSE IF b[1] < 128 THEN Utf8(Tail(b))
    ELSE IF IsLead2(b[1]) /\ Len(b) >= 2
    THEN IsContinuation(b[2]) /\ Utf8(Tail(Tail(b)))
    ELSE FALSE

\* len(text): the number of characters of a str given by its UTF-8 bytes
RECURSIVE CharCount(_)
CharCount(b) ==
    IF Len(b) = 0 THEN 0
    ELSE (IF IsContinuation(b[1]) THEN 0 ELSE 1) + CharCount(Tail(b))

\* _compat.py 38-44: maybe_decode(x)
maybe_decode(b) == IF Utf8(b) THEN Str(b) ELSE Bytes(b)

\* struct.pack('!I', n) for n below 2^24, and struct.unpack('!I', b);
\* a number of 2^24 or more is above every length met here and is given
\* as 2^24
pack_I(n) == <<0, (n \div 65536) % 256, (n \div 256) % 256, n % 256>>
unpack_I(b) ==
    IF b[1] > 0 THEN 16777216
    ELSE b[2] * 65536 + b[3] * 256 + b[4]

\* Python's item[n:]
From(b, n) == SubSeq(b, n + 1, Len(b))

RECURSIVE _encode(_)
RECURSIVE _encode_entries(_, _)
RECURSIVE _encode_items(_)

\* an encoder that writes the key's length less one
_encode_table_less(items) == _encode_entries(items, 1)

\* wire.py 142-148: the entries one after the other; off is what is taken
\* from len(k) for the length byte (nothing, in the code)
_encode_entries(items, off) ==
    IF Len(items) = 0 THEN <<>>
    ELSE <<CharCount(items[1].key.b) - off>> \o items[1].key.b
         \o _encode(items[1].value)
         \o _encode_entries(Tail(items), off)

\* wire.py 142-148
_encode_table(items) == _encode_entries(items, 0)

\* wire.py 157: b''.join(map(_encode, item))
_encode_items(items) ==
    IF Len(items) = 0 THEN <<>>
    ELSE _encode(items[1]) \o _encode_items(Tail(items))

\* wire.py 151-169
_encode(item) ==
    IF item.ty = "table"
    THEN <<cc_vtype_table>> \o pack_I(Len(_encode_table(item.items)))
         \o _encode_table(item.items)
    ELSE IF item.ty = "list"
    THEN <<cc_vtype_list>> \o pack_I(Len(_encode_items(item.items)))
         \o _encode_items(item.items)
    ELSE <<cc_vtype_binarydata>> \o pack_I(Len(item.b)) \o item.b

\* what a decoder gives: the value and the bytes it took, or an exception
Decoded2(value, l) == [exc |-> "none", value |-> value, l |-> l]
Undecoded(exc) == [exc |-> exc, value |-> Bytes(<<>>), l |-> 0]

\* t[key] = value on the entries of a table
SetEntry(items, key, value) ==
    IF \E i \in 1..Len(items) : items[i].key = key
    THEN [i \in 1..Len(items) |->
             IF items[i].key = key THEN Entry(key, value) ELSE items[i]]
    ELSE Append(items, Entry(key, value))

RECURSIVE _decode(_, _)
RECURSIVE _decode_table(_, _, _, _)
RECURSIVE _decode_list(_, _, _)

\* wire.py 172-190: t holds the entries decoded so far.  want_stringify
\* is "None", "True" or "False".
_decode_table(item, top_level, want_stringify, t) ==
    IF Len(item) = 0 THEN Decoded2(Table(t), 0)
    ELSE IF Len(item) < item[1] + 1 THEN Undecoded("UnexpectedEnd")
    ELSE IF ~Utf8(SubSeq(item, 2, item[1] + 1))
    THEN Undecoded("UnicodeDecodeError")
    ELSE Pick({ IF d.exc # "none" THEN d
                ELSE _decode_table(From(From(item, item[1] + 1), d.l),
                                   top_level, want_stringify,
                                   SetEntry(t,
                                            Str(SubSeq(item, 2, item[1] + 1)),
                                            d.value))
              : d \in {_decode(From(item, item[1] + 1),
                               IF /\ top_level
                                  /\ Str(SubSeq(item, 2, item[1] + 1))
                                         = Str(<<95, 100, 97, 116, 97>>)
                                  /\ want_stringify = "None"
                               THEN "True" ELSE want_stringify)} })

\* wire.py 193-199: li holds the values decoded so far
_decode_list(item, want_stringify, li) ==
    IF Len(item) = 0 THEN Decoded2(List(li), 0)
    ELSE Pick({ IF d.exc # "none" THEN d
                ELSE _decode_list(From(item, d.l), want_stringify,
                                  Append(li, d.value))
              : d \in {_decode(item, want_stringify)} })

\* wire.py 202-221
_decode(item, want_stringify) ==
    IF Len(item) < 5 THEN Undecoded("UnexpectedEnd")
    ELSE IF Len(item) - 5 < unpack_I(SubSeq(item, 2, 5))
    THEN Undecoded("UnexpectedEnd")
    ELSE Pick({ IF item[1] = cc_vtype_binarydata
                THEN Decoded2(IF want_stringify = "True"
                              THEN maybe_decode(SubSeq(item, 6, 5 + l))
                              ELSE Bytes(SubSeq(item, 6, 5 + l)),
                              l + 5)
                ELSE IF item[1] = cc_vtype_table
                THEN Pick({ IF d.exc # "none" THEN d
                            ELSE Decoded2(d.value, l + 5)
                          : d \in {_decode_table(SubSeq(item, 6, 5 + l),
                                       FALSE, want_stringify, <<>>)} })
                ELSE IF item[1] = cc_vtype_list
                THEN Pick({ IF d.exc # "none" THEN d
                            ELSE Decoded2(d.value, l + 5)
                          : d \in {_decode_list(SubSeq(item, 6, 5 + l),
                                       want_stringify, <<>>)} })
                ELSE Undecoded("BadForm")
              : l \in {unpack_I(SubSeq(item, 2, 5))} })

\* keys: "a", "_data" and a key of one character of two bytes
KeyA == Str(<<97>>)
KeyData == Str(<<95, 100, 97, 116, 97>>)
KeyE == Str(<<195, 169>>)
Keys == {KeyA, KeyData, KeyE}

\* blobs: empty, a letter, a character of two bytes, and bytes that are
\* no UTF-8
Blobs == {Bytes(<<>>), Bytes(<<97>>), Bytes(<<195, 169>>), Bytes(<<195>>)}

\* how deep the values of a message are nested
MaxDepth == 1

\* the values nested at most d deep: blobs, tables of one entry and, with
\* blobs as values, of two, lists of no, one and, of blobs, two elements
RECURSIVE Values(_)
Values(d) ==
    IF d = 0 THEN Blobs
    ELSE Values(d - 1)
         \cup {Table(<<Entry(k, v)>>) : k \in Keys, v \in Values(d - 1)}
         \cup {Table(<<Entry(k[1], v), Entry(k[2], w)>>) :
                  k \in {x \in Keys \X Keys : x[1] # x[2]},
                  v \in Blobs, w \in Blobs}
         \cup {List(<<>>)}
         \cup {List(<<v>>) : v \in Values(d - 1)}
         \cup {List(<<v, w>>) : v \in Blobs, w \in Blobs}

\* the messages given to the encoder: tables of one entry
Trees == {Table(<<Entry(k, v)>>) : k \in Keys, v \in Values(MaxDepth)}

\* the codec applied to one tree: args holds the tree, wr what the
\* encoder wrote and rd what the decoder gave
CodecInit ==
    /\ sess = NoSession
    /\ conn = NoConn
    /\ ctor = "none"
    /\ sock = NewSock
    /\ args \in {[done |-> FALSE, tree |-> t] : t \in Trees}
    /\ written = <<>>
    /\ rd = NoCall
    /\ wr = NoCall

\* wire.py 108: _encode_table(message)
CodecEncode ==
    /\ wr.n = 0
    /\ wr' = [n |-> 1, wire |-> _encode_table(args.tree.items)]
    /\ UNCHANGED <<conn, ctor, sock, args, written, rd, sess>>

\* wire.py 270: _decode_table(rest, top_level=True)
CodecDecode ==
    /\ wr.n = 1
    /\ rd.n = 0
    /\ rd' = [n |-> 1,
              result |-> _decode_table(wr.wire, TRUE, "None", <<>>)]
    /\ UNCHANGED <<conn, ctor, sock, args, written, wr, sess>>

CodecNext == CodecEncode \/ CodecDecode

SpecCodec == CodecInit /\ [][CodecNext]_vars

\* a value as it comes back when it is decoded with stringification: the
\* blobs that are UTF-8 as text
RECURSIVE Stringified(_)
Stringified(v) ==
    IF v.ty = "bytes" THEN maybe_decode(v.b)
    ELSE IF v.ty = "table"
    THEN Table([i \in 1..Len(v.items) |->
                   Entry(v.items[i].key, Stringified(v.items[i].value))])
    ELSE IF v.ty = "list"
    THEN List([i \in 1..Len(v.items) |-> Stringified(v.items[i])])
    ELSE v

\* the message as the round trip is to give it back: the same, with the
\* value of the top-level _data stringified
Expected2(tree) ==
    Table([i \in 1..Len(tree.items) |->
              IF tree.items[i].key = KeyData
              THEN Entry(KeyData, Stringified(tree.items[i].value))
              ELSE tree.items[i]])

\* C28 as stated: decoding the encoder's output gives back the tree, for
\* every tree of blobs, tables with keys of 1 to 255 bytes and lists, but
\* for the blobs in the top-level _data that are UTF-8, which come back
\* as text.
C28_AsStated ==
    (rd.n = 1 /\ wr.n = 1) =>
        /\ rd.result.exc = "none"
        /\ rd.result.value = Expected2(args.tree)

\* the place in the encoder's output where the first entry of the value
\* of the first entry begins, that value being a table with an entry
Inner == 1 + Len(args.tree.items[1].key.b) + 5 + 1
HasInner ==
    /\ args.tree.items[1].value.ty = "table"
    /\ Len(args.tree.items[1].value.items) > 0

\* C29 as stated: in the encoded form of every table entry the one-byte
\* key length field is the key's length less 1.
C29_AsStated ==
    wr.n = 1 =>
        /\ wr.wire[1] = Len(args.tree.items[1].key.b) - 1
        /\ HasInner =>
              wr.wire[Inner]
                  = Len(args.tree.items[1].value.items[1].key.b) - 1

\* C29, amended: the key length field is the key's length as len() gives
\* it, the number of its characters, which is the number of its bytes
\* when every character takes one byte; it is not that length less 1.
C29_KeyLength ==
    wr.n = 1 =>
        /\ wr.wire[1] = CharCount(args.tree.items[1].key.b)
        /\ CharCount(args.tree.items[1].key.b)
               = Len(args.tree.items[1].key.b)
           => wr.wire[1] = Len(args.tree.items[1].key.b)
        /\ HasInner =>
              wr.wire[Inner]
                  = CharCount(args.tree.items[1].value.items[1].key.b)

\* C29 witness: a table with the key _data whose value is a table with
\* the key a was encoded; the length bytes are 5 and 1.
C29_Witness ==
    /\ wr.n = 1
    /\ args.tree.items[1].key = KeyData
    /\ HasInner
    /\ args.tree.items[1].value.items[1].key = KeyA
    /\ wr.wire[1] = 5
    /\ wr.wire[Inner] = 1

(***************************************************************************)
(* Signed frames at the level of bytes (wire.py 97-139, 222-254 and        *)
(* 258-295).  The frames here are not encrypted.                           *)
(***************************************************************************)

\* wire.py 38
cc_version == 1

\* wire.py 44-46: the encoded _auth table up to the signature
cc_auth_fixed ==
    <<5, 95, 97, 117, 116, 104, 2, 0, 0, 0, 32, 4, 104, 109, 100, 53,
      1, 0, 0, 0, 22>>

KeyAuth == Str(<<95, 97, 117, 116, 104>>)
KeyCtrl == Str(<<95, 99, 116, 114, 108>>)
KeyType == Str(<<116, 121, 112, 101>>)
KeyErr == Str(<<101, 114, 114>>)
KeyEnc == Str(<<95, 101, 110, 99>>)
KeyHmd5 == Str(<<104, 109, 100, 53>>)
KeyAes == Str(<<95, 97, 101, 115, 50, 53, 54>>)
KeyAesz == Str(<<95, 97, 101, 115, 50, 53, 54, 122>>)

\* dict.get(key): the value, or NoValue for None
NoValue == [ty |-> "None", b |-> <<>>, items |-> <<>>]
TableGet(items, key) ==
    IF \E i \in 1..Len(items) : items[i].key = key
    THEN items[CHOOSE i \in 1..Len(items) : items[i].key = key].value
    ELSE NoValue

\* dict.pop(key, None)
RECURSIVE TablePop(_, _)
TablePop(items, key) ==
    IF Len(items) = 0 THEN <<>>
    ELSE IF items[1].key = key THEN TablePop(Tail(items), key)
    ELSE <<items[1]>> \o TablePop(Tail(items), key)

\* Python's truth of a value: not None and not empty
Truthy(v) == v.ty # "None" /\ (Len(v.b) > 0 \/ Len(v.items) > 0)

\* the sum of the bytes of b, each times its place counted from n
RECURSIVE Weighted(_, _)
Weighted(b, n) ==
    IF Len(b) = 0 THEN 0
    ELSE (n * b[1] + Weighted(Tail(b), n + 1)) % 251

\* wire.py 130-132 and 279-281: the 22 characters of the base64 form of
\* the HMAC-MD5 of the payload under the secret.  A keyed digest stands for
\* it: it differs for two secrets, and for two payloads of fewer than 251
\* bytes of which one is the other with one bit changed.
hmd5(secret, payload) ==
    <<IF secret = "s3cret" THEN 65 ELSE 66,
      65 + (Weighted(payload, 1) \div 16),
      65 + (Weighted(payload, 1) % 16)>>
    \o [i \in 1..19 |-> 65]

\* wire.py 97-139 without the leading length: message is a table without
\* _enc and _comp in its _ctrl
to_wire_bytes(message, secret) ==
    IF secret # NoSecret
    THEN pack_I(cc_version)
         \o _encode_table(<<Entry(KeyAuth, Table(<<Entry(KeyHmd5,
                Bytes(hmd5(secret,
                           _encode_table(TablePop(message.items,
                                                  KeyAuth)))))>>))>>)
         \o _encode_table(TablePop(message.items, KeyAuth))
    ELSE pack_I(cc_version) \o _encode_table(TablePop(message.items, KeyAuth))

\* wire.py 222-254: "none" or the exception
wire_syntax_checks(items, maybe_encrypted) ==
    IF /\ ~(/\ maybe_encrypted
            /\ \/ Truthy(TableGet(items, KeyAes))
               \/ Truthy(TableGet(items, KeyAesz)))
       /\ \/ TableGet(items, KeyCtrl).ty # "table"
          \/ TableGet(items, KeyData).ty # "table"
          \/ TableGet(TableGet(items, KeyData).items, KeyType).ty # "str"
          \/ /\ Truthy(TableGet(TableGet(items, KeyData).items, KeyErr))
             /\ TableGet(TableGet(items, KeyData).items, KeyErr).ty # "str"
    THEN "BadForm"
    ELSE IF TableGet(items, KeyAuth).ty \notin {"None", "table"}
    THEN "BadForm"
    ELSE "none"

\* what from_wire gives: the table, or an exception
Taken(table) == [exc |-> "none", table |-> table]
Refused(exc) == [exc |-> exc, table |-> Table(<<>>)]

\* wire.py 272-288: the check of the signature; "none" or the exception
check_auth(message, secret, has_auth) ==
    IF secret = NoSecret /\ ~has_auth THEN "none"
    ELSE IF secret = NoSecret \/ ~has_auth THEN "BadAuth"
    ELSE IF Len(message) < 43 THEN "UnexpectedEnd"
    ELSE IF SubSeq(message, 5, 25) # cc_auth_fixed THEN "BadAuth"
    ELSE IF hmd5(secret, From(message, 47)) # SubSeq(message, 26, 47)
    THEN "BadAuth"
    ELSE "none"

\* wire.py 258-295, for frames that are not encrypted (an encrypted one
\* is given as the outcome "decrypt": the rest of from_wire is not
\* modelled here)
from_wire_bytes(message, secret) ==
    IF Len(message) < 4 THEN Refused("UnexpectedEnd")
    ELSE IF SubSeq(message, 1, 4) # pack_I(cc_version)
    THEN Refused("BadVersion")
    ELSE Pick({
        IF d.exc # "none" THEN Refused(d.exc)
        ELSE IF wire_syntax_checks(d.value.items, TRUE) # "none"
        THEN Refused(wire_syntax_checks(d.value.items, TRUE))
        ELSE IF check_auth(message, secret,
                           TableGet(d.value.items, KeyAuth).ty # "None")
                    # "none"
        THEN Refused(check_auth(message, secret,
                          TableGet(d.value.items, KeyAuth).ty # "None"))
        ELSE IF /\ TableGet(d.value.items, KeyAes).ty = "None"
                /\ TableGet(d.value.items, KeyAesz).ty = "None"
        THEN Taken(Table([i \in 1..Len(d.value.items) |->
                 IF d.value.items[i].key = KeyCtrl
                 THEN Entry(KeyCtrl,
                            Table(TablePop(d.value.items[i].value.items,
                                           KeyEnc)))
                 ELSE d.value.items[i]]))
        ELSE Refused("decrypt")
      : d \in {_decode_table(From(message, 4), TRUE, "None", <<>>)} })

\* the messages signed: a request for status, and an answer with a value
TypeStatus == Bytes(<<115>>)
AuthMessages ==
    {Table(<<Entry(KeyCtrl, Table(<<>>)),
             Entry(KeyData, Table(<<Entry(KeyType, TypeStatus)>>))>>),
     Table(<<Entry(KeyCtrl, Table(<<Entry(KeyA, Bytes(<<49>>))>>)),
             Entry(KeyData, Table(<<Entry(KeyType, TypeStatus),
                                    Entry(KeyA, Bytes(<<>>))>>))>>)}

AuthSecrets == {NoSecret, "s3cret", "0ther"}

\* b with bit j (0 to 7) of its byte i changed
Flip(b, i, j) ==
    [b EXCEPT ![i] = IF (b[i] \div (2 ^ j)) % 2 = 1
                     THEN b[i] - 2 ^ j ELSE b[i] + 2 ^ j]

\* a sender with its secret, a receiver with its own, and a message
AuthInit ==
    /\ sess = NoSession
    /\ conn = NoConn
    /\ ctor = "none"
    /\ sock = NewSock
    /\ args \in {[done |-> FALSE, message |-> m, sender |-> s,
                  receiver |-> r] :
                     m \in AuthMessages, s \in AuthSecrets,
                     r \in AuthSecrets}
    /\ written = <<>>
    /\ rd = NoCall
    /\ wr = NoCall

\* wire.py 97-139: the sender makes the frame
AuthToWire ==
    /\ wr.n = 0
    /\ wr' = [n |-> 1, wire |-> to_wire_bytes(args.message, args.sender),
              altered |-> "no"]
    /\ UNCHANGED <<conn, ctor, sock, args, written, rd, sess>>

\* one bit of the body (what follows the version) changes on the way
AuthFlip ==
    /\ wr.n = 1
    /\ wr.altered = "no"
    /\ rd.n = 0
    /\ \E i \in 5..Len(wr.wire), j \in 0..7 :
          wr' = [wr EXCEPT !.wire = Flip(wr.wire, i, j),
                           !.altered = "bit"]
    /\ UNCHANGED <<conn, ctor, sock, args, written, rd, sess>>

\* the _auth table is taken from a signed frame on the way
AuthStrip ==
    /\ wr.n = 1
    /\ wr.altered = "no"
    /\ rd.n = 0
    /\ args.sender # NoSecret
    /\ wr' = [wr EXCEPT !.wire = pack_I(cc_version) \o From(wr.wire, 47),
                        !.altered = "strip"]
    /\ UNCHANGED <<conn, ctor, sock, args, written, rd, sess>>

\* wire.py 258-295: the receiver takes the frame
AuthFromWire ==
    /\ wr.n = 1
    /\ rd.n = 0
    /\ rd' = [n |-> 1, result |-> from_wire_bytes(wr.wire, args.receiver)]
    /\ UNCHANGED <<conn, ctor, sock, args, written, wr, sess>>

AuthNext == AuthToWire \/ AuthFlip \/ AuthStrip \/ AuthFromWire

SpecAuth == AuthInit /\ [][AuthNext]_vars

\* the frame the receiver took has an _auth table at its head
FrameSigned ==
    /\ Len(wr.wire) >= 47
    /\ SubSeq(wr.wire, 5, 25) = cc_auth_fixed

\* C27 as stated: a receiver with a secret accepts a frame only if its
\* body begins with the 21 bytes of the _auth prefix and then the 22 bytes
\* of the HMAC of the rest; a frame without _auth for a receiver with a
\* secret, a frame with _auth for a receiver without one, and a frame
\* altered after it was signed are each rejected with BadAuth.
C27_AsStated ==
    rd.n = 1 =>
        /\ (args.receiver # NoSecret /\ rd.result.exc = "none") =>
              /\ FrameSigned
              /\ SubSeq(wr.wire, 26, 47)
                     = hmd5(args.receiver, From(wr.wire, 47))
        /\ (args.receiver # NoSecret /\ args.sender = NoSecret
                /\ wr.altered = "no") => rd.result.exc = "BadAuth"
        /\ (args.receiver # NoSecret /\ wr.altered = "strip")
              => rd.result.exc = "BadAuth"
        /\ (args.receiver = NoSecret /\ args.sender # NoSecret
                /\ wr.altered = "no") => rd.result.exc = "BadAuth"
        /\ (args.receiver # NoSecret /\ args.sender # NoSecret
                /\ wr.altered = "bit") => rd.result.exc = "BadAuth"

(***************************************************************************)
(* Session._close step by step (session.py 235-282), on a session with     *)
(* callers, open sequences, the reader and the writer.                     *)
(***************************************************************************)
\* a sequence is registered on the session: session.py 390-399
OpenSequence ==
    /\ sess.started
    /\ ~sess.sequences_none
    /\ Len(sess.issued) < MaxSeqs
    /\ sess' = add_sequence(sess,
                   ServerSequence("q" \o Chars(str(Len(sess.issued) + 1)),
                                  1)).sess
    /\ UNCHANGED <<conn, ctor, sock, args, written, rd, wr>>

\* session.py 266-275: writer.join(), then the remnants of the queue
CloseQueue ==
    /\ sess.closer = "join_writer"
    /\ sess.writer = "exited"
    /\ sess' = [take_remnants(sess) EXCEPT !.closer = "sequences"]
    /\ UNCHANGED <<conn, ctor, sock, args, written, rd, wr>>

\* session.py 276-281
CloseSequences ==
    /\ sess.closer = "sequences"
    /\ sess' = [close_sequences(sess) EXCEPT !.closer = "socket"]
    /\ UNCHANGED <<conn, ctor, sock, args, written, rd, wr>>

\* session.py 282: connection.close()
CloseSocket ==
    /\ sess.closer = "socket"
    /\ \E c \in {close(conn, sock)} : conn' = c.conn /\ sock' = c.sock
    /\ sess' = [sess EXCEPT !.closer = "set_closed"]
    /\ UNCHANGED <<ctor, args, written, rd, wr>>

CloseNext ==
    \/ TellConnect \/ Start \/ CallerAsk \/ OpenSequence \/ CallerClose
    \/ ReaderEOF
    \/ WriterTake \/ WriterNoncify \/ WriterSend
    \/ CloserShutdown \/ CloserTake \/ CloserSentinel
    \/ CloseQueue \/ CloseSequences \/ CloseSocket \/ CloserSetClosed

SpecClose == ConnInit /\ [][CloseNext]_vars

\* RequestState i is given the exception Closing in this step
Fails(i) ==
    /\ i <= Len(sess.states)
    /\ sess.states[i].exception # "Closing"
    /\ sess'.states[i].exception = "Closing"

\* the sentinel is in the write queue
Queued == \E k \in 1..Len(sess.write_queue) : sess.write_queue[k] = Sentinel

\* what _close() has done and not done, in the order of its steps
ShutDone == sock.shut
ReaderJoined == sess.reader = "exited"
OutstandingDone == sess.closer \notin {"none", "wait", "join_reader"}
WriterJoined == sess.writer = "exited"
QueueDone == sess.queue_none
SequencesDone == sess.sequences_none
SocketDone == sock.closed

\* C31: Session._close shuts the socket down, joins the reader, fails the
\* outstanding states, enqueues the sentinel, joins the writer, fails the
\* queued states, closes the sequences and closes the socket, in this
\* order: each step is taken when the ones before it are done and none
\* after it is; outstanding states are failed with the reader exited,
\* queued states with the writer exited, and the socket is closed last.
C31_CloseOrder ==
    [][/\ (~sock.shut /\ sock'.shut) =>
              /\ ~OutstandingDone /\ ~Queued /\ ~QueueDone
              /\ ~SequencesDone /\ ~SocketDone
       /\ \A i \in 1..MaxAsks :
              (Fails(i) /\ i \in TableStates(conn.outstanding)) =>
                  /\ ShutDone /\ ReaderJoined
                  /\ ~OutstandingDone /\ ~Queued /\ ~QueueDone
                  /\ ~SequencesDone /\ ~SocketDone
       /\ (~OutstandingDone /\ OutstandingDone') =>
              /\ ShutDone /\ ReaderJoined
              /\ \A i \in TableStates(conn.outstanding) : Fails(i)
       /\ (sess'.write_queue # <<>> /\ sess'.write_queue[1] = Sentinel
               /\ ~Queued) =>
              /\ ShutDone /\ ReaderJoined /\ OutstandingDone
              /\ ~QueueDone /\ ~SequencesDone /\ ~SocketDone
       /\ \A i \in 1..MaxAsks :
              (Fails(i) /\ i \in QueueStates(sess.write_queue)) =>
                  /\ ShutDone /\ ReaderJoined /\ OutstandingDone
                  /\ WriterJoined
                  /\ ~QueueDone /\ ~SequencesDone /\ ~SocketDone
       /\ (~QueueDone /\ QueueDone') =>
              /\ WriterJoined
              /\ \A i \in QueueStates(sess.write_queue) :
                     sess'.states[i].exception = "Closing"
       /\ (~SequencesDone /\ SequencesDone') =>
              /\ ShutDone /\ ReaderJoined /\ OutstandingDone
              /\ WriterJoined /\ QueueDone /\ ~SocketDone
              /\ \A k \in DOMAIN sess.sequences :
                     sess.sequences[k].name \in sess'.seq_closed
       /\ (~SocketDone /\ SocketDone') =>
              /\ ShutDone /\ ReaderJoined /\ OutstandingDone
              /\ WriterJoined /\ QueueDone /\ SequencesDone
       /\ SocketDone =>
              /\ sess'.states = sess.states
              /\ sess'.seq_closed = sess.seq_closed
              /\ sess'.write_queue = sess.write_queue
      ]_vars

\* C31 witness: the session is closed; of two requests one was written
\* and failed as outstanding and the other failed in the queue, and a
\* sequence was closed.
C31_Witness ==
    /\ sess.closed
    /\ sock.closed
    /\ Len(sess.states) = 2
    /\ \A i \in 1..2 : sess.states[i].exception = "Closing"
    /\ Len(written) = 2
    /\ sess.seq_closed # {}

\* the writer thread enters Connection.write() in this step (session.py
\* 155): the message is stamped and given to the tracer
WriterWrites == sess.started /\ Len(written') > Len(written)

\* C32 as stated: once Session._close has shut the socket down, the
\* writer thread does not call Connection.write() again, so no send is
\* attempted on the socket after the shutdown.
C32_AsStated == [][WriterWrites => ~sock.shut]_vars

\* the _ctrl the caller gave to write(), if any
GivenCtrl ==
    IF Has(wr.call.given, "_ctrl") THEN wr.call.given["_ctrl"]
    ELSE EmptyTable

\* the message given to write() is a request
GivenRequest == ~Has(GivenCtrl, "_rpl") /\ ~Has(GivenCtrl, "_evt")

\* C33: write() adds the entry self_next -> state to the outstanding
\* table exactly when the message is a request, and does so before a byte
\* is sent (the entry is there also when nothing could be sent); writing
\* a response or an event leaves the table as it was.
C33_Registers ==
    wr.n > 0 =>
        IF GivenRequest
        THEN wr.call.conn.outstanding
                 = With(wr.call.pre.outstanding, wr.call.pre.self_next,
                        wr.call.state)
        ELSE wr.call.conn.outstanding = wr.call.pre.outstanding

\* C33 witness: a request with a state was given to write() on a socket
\* that was shut down; nothing was sent and the entry is in the table.
C33_Witness ==
    /\ wr.n > 1
    /\ GivenRequest
    /\ wr.call.state # None
    /\ wr.call.exc = "socket.error"
    /\ Len(wr.call.sock.out) = Len(written) - 1
    /\ Has(conn.outstanding, wr.call.pre.self_next)
    /\ conn.outstanding[wr.call.pre.self_next] = wr.call.state

(***************************************************************************)
(* The writer and messages that cannot be rendered (session.py 143-184):   *)
(* callers enqueue requests and events, some with a key that the encoder   *)
(* refuses, and the connection may break under the writer.                 *)
(***************************************************************************)
\* the messages of the callers: request number n as it should be, and
\* with a key of 256 characters
Renderable(n) == [_data |-> With(TypeOnly("ping"), "arg", str(n))]
Unrenderable(n) == [_data |-> With(Renderable(n)["_data"], LongKey, ONE)]

\* a caller's ask()
CallerAskAny ==
    /\ sess.started
    /\ Len(sess.enq) < MaxAsks + 1
    /\ \E request \in {Renderable(Len(sess.enq) + 1),
                       Unrenderable(Len(sess.enq) + 1)} :
          \E a \in {ask(sess, request)} : sess' = a.sess
    /\ UNCHANGED <<conn, ctor, sock, args, written, rd, wr>>

\* a caller's write() of an event, which has no RequestState
CallerEvent ==
    /\ sess.started
    /\ Len(sess.enq) < MaxAsks + 1
    /\ \E m \in {Renderable(Len(sess.enq) + 1),
                 Unrenderable(Len(sess.enq) + 1)} :
          \E w \in {session_write(sess,
                        With(m, "_ctrl", With(EmptyTable, "_evt", ONE)),
                        None)} :
              sess' = w.sess
    /\ UNCHANGED <<conn, ctor, sock, args, written, rd, wr>>

\* the connection breaks: sendall() raises socket.error from now on
SocketBreaks ==
    /\ sess.started
    /\ ~SockDead(sock)
    /\ sock' = shutdown(sock)
    /\ UNCHANGED <<conn, ctor, args, written, rd, wr, sess>>

RenderNext ==
    \/ TellConnect \/ Start \/ CallerAskAny \/ CallerEvent \/ SocketBreaks
    \/ WriterTake \/ WriterNoncify \/ WriterSend

SpecRender == ConnInit /\ [][RenderNext]_vars

\* this step is the writer's return from Connection.write(), and what
\* to_wire did in it
WriterReturns == sess.writer = "stamped" /\ sess'.writer # "stamped"
Rendered == to_wire(sess.item[1].message[1], conn.secret)

\* C34: when Connection.write raises an exception that is not a socket
\* error while rendering, the writer hands it to the RequestState of the
\* message through return_exception, stays alive for the next queue
\* entry and does not request close; when it raises a socket error the
\* writer's loop ends and request_close() is called.
C34_WriterErrors ==
    [][WriterReturns =>
          IF Rendered.exc # "none"
          THEN /\ sess'.writer = "idle"
               /\ sess'._closing = sess._closing
               /\ sock' = sock
               /\ sess.item[1].state # None =>
                     /\ sess'.states[sess.item[1].state].done
                     /\ sess'.states[sess.item[1].state].exception
                            = Rendered.exc
               /\ \A i \in 1..Len(sess.states) :
                     i # sess.item[1].state =>
                         sess'.states[i] = sess.states[i]
          ELSE IF SockDead(sock)
          THEN /\ sess'.writer = "exited"
               /\ sess'._closing
               /\ sock' = sock
          ELSE /\ sess'.writer = "idle"
               /\ sess'._closing = sess._closing
               /\ Len(sock'.out) = Len(sock.out) + 1
      ]_vars

\* C34 witness: a request could not be rendered and its RequestState has
\* the exception; the writer went on and sent the next message; then the
\* connection broke, the writer ended and close was requested.
C34_Witness ==
    /\ sess.writer = "exited"
    /\ sess._closing
    /\ Len(sock.out) = 2
    /\ Len(sess.states) >= 1
    /\ sess.states[1].exception = "AssertionError"

\* the _sseq of the i-th frame sent
SentSseq(i) == int(sock.out[i].table["_ctrl"]["_sseq"])

\* C35 as stated: after a write that failed in rendering with nothing
\* sent, the next message transmitted carries the _sseq that follows the
\* _sseq of the last message transmitted, so that the frames sent carry
\* consecutive _sseq and a peer that checks them one by one accepts each.
C35_AsStated ==
    sess.started =>
        \A i \in 2..Len(sock.out) : SentSseq(i) = SentSseq(i - 1) + 1

(***************************************************************************)
(* The passive side's first message (checked under SpecHandshake).         *)
(***************************************************************************)
\* field f of the first message is the text of a number of 63 bits
NonceText(f) ==
    /\ Has(HsCtrl, f) /\ int_ok(HsCtrl[f])
    /\ int(HsCtrl[f]) >= 0 /\ int(HsCtrl[f]) <= U63Max

\* the passive constructor read and decoded a first message
FirstMessage == args.done /\ args.want_read /\ ~args.input.eof

\* the first message is a request with _pnon = 0 and non-zero _snon, _sseq
GoodFirst ==
    /\ FirstMessage
    /\ ~Has(HsCtrl, "_rpl") /\ ~Has(HsCtrl, "_evt")
    /\ NonceText("_pnon") /\ int(HsCtrl["_pnon"]) = 0
    /\ NonceText("_snon") /\ int(HsCtrl["_snon"]) # 0
    /\ NonceText("_sseq") /\ int(HsCtrl["_sseq"]) # 0

\* peer state was set from the first message and the reply was written
PeerInitialized ==
    /\ conn.peer_nonce = int(HsCtrl["_snon"])
    /\ conn.peer_next = int(HsCtrl["_sseq"]) + 1

FirstReplied ==
    /\ ctor = "ok"
    /\ Len(written) = 1 /\ Len(sock.out) = 1
    /\ Has(written[1]["_ctrl"], "_rpl")
    /\ Has(written[1]["_ctrl"], "_rseq")
    /\ written[1]["_ctrl"]["_rseq"] = HsCtrl["_sseq"]

\* C40 as stated: the passive side initializes its peer state only from a
\* first message that is a request with _pnon = 0 and non-zero _snon and
\* _sseq; it then sets peer_nonce = _snon, peer_next = _sseq + 1 and
\* replies with a response whose _rseq is that _sseq; any other first
\* message makes construction fail with BadNoncing.
C40_AsStated ==
    /\ GoodFirst => (PeerInitialized /\ FirstReplied)
    /\ (FirstMessage /\ ~GoodFirst)
           => (ctor = "BadNoncing" /\ conn.peer_nonce = 0
               /\ conn.peer_next = 0 /\ written = <<>>)

\* C40 amended: as stated, except that a good first request that offers no
\* algorithm the side supports, met under policy REQUIRED, sets the peer
\* state and then makes construction fail with NotSecure, nothing being
\* replied.
C40_PassiveFirst ==
    /\ (GoodFirst /\ ~(Effective = REQUIRED /\ ~OffersSupported))
           => (PeerInitialized /\ FirstReplied)
    /\ (GoodFirst /\ Effective = REQUIRED /\ ~OffersSupported)
           => (PeerInitialized /\ ctor = "NotSecure" /\ written = <<>>)
    /\ (FirstMessage /\ ~GoodFirst)
           => (ctor = "BadNoncing" /\ conn.peer_nonce = 0
               /\ conn.peer_next = 0 /\ written = <<>>)

\* C40 witness: a first request with a nonce and a sequence number other
\* than 1 was answered.
C40_Witness ==
    /\ GoodFirst /\ FirstReplied
    /\ conn.peer_nonce = 2 /\ conn.peer_next = U63Max + 1

(***************************************************************************)
(* The nonce state over a connection's life (checked under SpecRead).      *)
(***************************************************************************)
\* this step is a read() that returned a message
ReadAccepts ==
    rd'.n = rd.n + 1 /\ rd'.call.exc = "none" /\ rd'.call.message # <<>>

\* C36: in every reachable state of a connection self_nonce is the value
\* chosen at construction, peer_nonce once non-zero never changes,
\* peer_next never decreases and grows by exactly 1 with an accepted
\* inbound message (never by more in one step), and self_next never
\* decreases.
C36_NonceState ==
    [][ /\ ctor' = "ok" => conn'.self_nonce = args'.nonce
        /\ ctor = "ok" =>
              /\ conn'.self_nonce = conn.self_nonce
              /\ conn.peer_nonce # 0 => conn'.peer_nonce = conn.peer_nonce
              /\ conn'.peer_next >= conn.peer_next
              /\ conn'.peer_next <= conn.peer_next + 1
              /\ ReadAccepts => conn'.peer_next = conn.peer_next + 1
              /\ conn'.self_next >= conn.self_next ]_vars

\* C36 witness: after the handshake a message of the peer was accepted and
\* a request was written; both counters have moved on.
C36_Witness ==
    /\ ctor = "ok" /\ Accepted /\ Reads > 0
    /\ conn.self_nonce = args.nonce /\ conn.peer_nonce # 0
    /\ conn.peer_next = rd.call.pre.peer_next + 1
    /\ conn.peer_next > 2 /\ conn.self_next > 2

(***************************************************************************)
(* Waking the closer (checked under SpecTimersFair): the closer thread     *)
(* runs when it can, a wait() whose time has come or that was notified     *)
(* returns, and the subclass's _close() returns.                           *)
(***************************************************************************)
SpecTimersFair ==
    /\ SpecTimers
    /\ WF_vars(CloserPass) /\ WF_vars(CloserWake) /\ WF_vars(CloserDoClose)

\* the closer waits, and nobody has asked for the close
Sleeping(t) == t.made /\ t.pc = "sleep" /\ ~t._closing

\* deadline d comes before the time the closer sleeps towards, or the
\* closer sleeps with no deadline
Sooner(d, t) == d # NoTime /\ (t.wake = NoTime \/ d[1] < t.wake[1])

\* this step is a timer change that produced deadline d
Produces(d) ==
    \/ sess'.timer._idle_timeout # sess.timer._idle_timeout
       /\ d = sess'.timer._idle_timeout
    \/ sess'.timer._life_timeout # sess.timer._life_timeout
       /\ d = sess'.timer._life_timeout

\* a deadline that is set and has passed
Passed(d, t) == d # NoTime /\ t.now >= d[1]

DeadlinePassed ==
    /\ sess.timer.made
    /\ \/ Passed(sess.timer._idle_timeout, sess.timer)
       \/ Passed(sess.timer._life_timeout, sess.timer)

\* C37: a timer change (set_idletime, set_lifetime, not_idle) that produces
\* a deadline earlier than the one the closer sleeps towards, or any
\* deadline while it sleeps with none, wakes the closer, which then goes
\* through its loop again; and once the idle or the lifetime deadline has
\* passed, the object is eventually closed unless the deadline is reset.
C37_WakesAndCloses ==
    /\ [][sess.timer.made =>
            \A d \in {sess'.timer._idle_timeout, sess'.timer._life_timeout} :
               (Sleeping(sess.timer) /\ Produces(d) /\ Sooner(d, sess.timer))
                   => (sess'.timer.notified /\ sess'.timer.pc = "sleep")]_vars
    /\ [](sess.timer.made =>
            \A d \in {sess.timer._idle_timeout, sess.timer._life_timeout} :
               (Sleeping(sess.timer) /\ Sooner(d, sess.timer))
                   => sess.timer.notified)
    /\ (sess.timer.made /\ sess.timer.pc = "sleep" /\ sess.timer.notified)
           ~> (sess.timer.made /\ sess.timer.pc = "run")
    /\ DeadlinePassed
           ~> ((sess.timer.made /\ sess.timer.closed) \/ ~DeadlinePassed)

\* C37 witness: the closer sleeps towards the lifetime deadline, an idle
\* deadline before it was produced and has passed, and the closer has been
\* notified.
C37_Witness ==
    /\ Sleeping(sess.timer) /\ sess.timer.notified
    /\ sess.timer.wake # NoTime
    /\ sess.timer.wake = sess.timer._life_timeout
    /\ Sooner(sess.timer._idle_timeout, sess.timer)
    /\ Passed(sess.timer._idle_timeout, sess.timer)

(***************************************************************************)
(* Properties of the session (checked under SpecSession).                  *)
(***************************************************************************)
\* C1 as stated: when closed is set, every RequestState returned by an
\* ask() is done, with the exception Closing unless a response was
\* delivered to it; none is left pending.
C1_AsStated ==
    sess.closed =>
        \A i \in 1..Len(sess.states) :
            /\ sess.states[i].done
            /\ sess.states[i].response = <<>> =>
                   sess.states[i].exception = "Closing"

\* the reader's loop ended on a read that raised a protocol exception
ProtocolErrors == {"BadNoncing", "BadAuth", "BadVersion"}
ViolationExit ==
    /\ sess.reader = "exited"
    /\ rd.n > 0
    /\ rd.call.exc \in ProtocolErrors

\* the caller of RequestState i was waiting when that read was made
PendingThen(i) ==
    /\ ViolationExit
    /\ i <= rd.asked
    /\ ~sess.states[i].done

Woken(i) ==
    /\ i <= Len(sess.states)
    /\ sess.states[i].done
    /\ sess.states[i].exception = "Closing"

\* C12 as stated: once the reader has received a frame that violates a
\* protocol invariant its loop has ended, the session is closed in the
\* end, and every caller that was waiting on a RequestState then is
\* woken with the exception Closing in the end.
C12_AsStated ==
    /\ ViolationExit ~> sess.closed
    /\ \A i \in 1..MaxAsks : PendingThen(i) ~> Woken(i)

\* what tells an enqueued message from the others: its content and, for
\* a response, the request it answers
Ident(m) ==
    [data |-> m["_data"],
     rseq |-> IF Has(m, "_ctrl") /\ Has(m["_ctrl"], "_rseq")
              THEN <<m["_ctrl"]["_rseq"]>> ELSE <<>>]

\* the place of a transmitted message in the order of enqueueing
EnqIndex(m) ==
    CHOOSE k \in 1..Len(sess.enq) : Ident(sess.enq[k]) = Ident(m)

\* the frames sent after the connection's handshake frame
SentAfterHandshake == 2..Len(sock.out)

\* C6: messages enqueued through Session.write() are transmitted in the
\* order of enqueueing, and their _sseq values grow in that order.
C6_Fifo ==
    sess.started =>
        /\ \A i \in SentAfterHandshake :
              \E k \in 1..Len(sess.enq) :
                  Ident(sess.enq[k]) = Ident(sock.out[i].table)
        /\ \A i, j \in SentAfterHandshake :
              i < j =>
                  /\ EnqIndex(sock.out[i].table) < EnqIndex(sock.out[j].table)
                  /\ int(sock.out[i].table["_ctrl"]["_sseq"])
                         < int(sock.out[j].table["_ctrl"]["_sseq"])

\* C6 witness: a caller's request and the reader's error response were
\* both enqueued and both transmitted.
C6_Witness ==
    /\ sess.started
    /\ Len(sock.out) >= 3
    /\ \E i, j \in SentAfterHandshake :
          /\ Has(sock.out[i].table["_ctrl"], "_rpl")
          /\ ~Has(sock.out[j].table["_ctrl"], "_rpl")

(***************************************************************************)
(* The writer's condition variable (checked under SpecQueue): callers      *)
(* enqueue requests and events at any time, the connection may break, a    *)
(* caller may ask for the close, and the threads are scheduled: a thread   *)
(* that can take a step takes it in the end.                               *)
(***************************************************************************)
\* the pairs the callers enqueue
MaxQueued == 2

\* a caller's ask(), which enqueues a request with a RequestState
QueueAsk ==
    /\ sess.started
    /\ Len(sess.enq) < MaxQueued
    /\ \E a \in {ask(sess, Renderable(Len(sess.enq) + 1))} : sess' = a.sess
    /\ UNCHANGED <<conn, ctor, sock, args, written, rd, wr>>

\* a caller's write() of an event, which has no RequestState
QueueEvent ==
    /\ sess.started
    /\ Len(sess.enq) < MaxQueued
    /\ \E w \in {session_write(sess,
                      With(Renderable(Len(sess.enq) + 1),
                           "_ctrl", With(EmptyTable, "_evt", ONE)),
                      None)} :
          sess' = w.sess
    /\ UNCHANGED <<conn, ctor, sock, args, written, rd, wr>>

QueueNext ==
    \/ TellConnect \/ Start \/ QueueAsk \/ QueueEvent \/ CallerClose
    \/ SocketBreaks \/ ReaderEOF
    \/ WriterTake \/ WriterNoncify \/ WriterSend
    \/ CloserShutdown \/ CloserTake \/ CloserSentinel \/ CloserRemnants
    \/ CloserSetClosed

SpecQueue ==
    /\ ConnInit
    /\ [][QueueNext]_vars
    /\ WF_vars(ReaderUnblocked)
    /\ WF_vars(Writer)
    /\ WF_vars(Closer)

\* the n-th message enqueued was taken by the writer and given to
\* Connection.write()
Written(n) ==
    \E k \in 1..Len(written) : Ident(written[k]) = Ident(sess.enq[n])

\* the n-th message enqueued was among the remnants of the queue, and its
\* RequestState, if it has one, was ended with Closing
FailedByClose(n) ==
    \E k \in 1..Len(sess.wq) :
        /\ sess.wq[k].message # <<>>
        /\ Ident(sess.wq[k].message[1]) = Ident(sess.enq[n])
        /\ sess.wq[k].state # None =>
               /\ sess.states[sess.wq[k].state].done
               /\ sess.states[sess.wq[k].state].exception = "Closing"

\* C38: on a started session the writer never waits on its condition
\* while the write queue holds something, although Session.write()
\* notifies only when the queue's length becomes 1; and every pair that was
\* enqueued is in the end taken by the writer and written, or failed by
\* the close.
C38_WriterNotStuck ==
    /\ [](sess.writer = "waiting" => Len(sess.write_queue) = 0)
    /\ \A n \in 1..MaxQueued :
          (Len(sess.enq) >= n) ~>
              (Len(sess.enq) >= n /\ (Written(n) \/ FailedByClose(n)))

\* C38 witness: two pairs were enqueued; the writer has taken and written
\* the first and the close has failed the second, which had a
\* RequestState.
C38_Witness ==
    /\ sess.closed
    /\ Len(sess.enq) = 2
    /\ Written(1) /\ ~Written(2)
    /\ FailedByClose(2)
    /\ Len(sess.states) > 0
    /\ sess.states[Len(sess.states)].exception = "Closing"

(***************************************************************************)
(* Enqueueing at the time of the close (checked under SpecBoundary):       *)
(* callers call write(), ask() and tell() before, while and after          *)
(* _close() runs; sess.last keeps what the last call did.                  *)
(***************************************************************************)
\* the methods that enqueue
Enqueuers == {"write", "ask", "tell"}

\* session.py 284-296, 298-336, 338-362: write() of an event; ask(); and
\* tell(), which is ask() followed by a wait for the response
enqueue(s, op, n) ==
    IF op = "write"
    THEN session_write(s, With(Renderable(n), "_ctrl",
                               With(EmptyTable, "_evt", ONE)), None)
    ELSE ask(s, Renderable(n))

BoundaryCall ==
    /\ sess.started
    /\ sess.last.n < MaxQueued + 1
    /\ \E op \in Enqueuers :
          \E r \in {enqueue(sess, op, sess.last.n + 1)} :
              sess' = [r.sess EXCEPT !.last = [n |-> sess.last.n + 1,
                                               op |-> op, exc |-> r.exc]]
    /\ UNCHANGED <<conn, ctor, sock, args, written, rd, wr>>

BoundaryNext ==
    \/ TellConnect \/ Start \/ BoundaryCall \/ CallerClose \/ ReaderEOF
    \/ WriterTake \/ WriterNoncify \/ WriterSend
    \/ CloserShutdown \/ CloserTake \/ CloserSentinel \/ CloserRemnants
    \/ CloserSetClosed

SpecBoundary == ConnInit /\ [][BoundaryNext]_vars

\* this step is a call of write(), ask() or tell()
Calls == sess'.last.n = sess.last.n + 1

\* the n-th message enqueued waits in the queue, or is in the writer's hand
InQueue(n) ==
    \E k \in 1..Len(sess.write_queue) :
        /\ sess.write_queue[k].message # <<>>
        /\ Ident(sess.write_queue[k].message[1]) = Ident(sess.enq[n])

InHand(n) ==
    /\ sess.item # <<>>
    /\ Ident(sess.item[1].message[1]) = Ident(sess.enq[n])

\* C39: once _close() has taken the remnants of the write queue, every
\* write(), ask() and tell() raises Closing and enqueues nothing; and a
\* pair enqueued before that is taken by the writer or is among the
\* remnants, failed with Closing: none is lost.
C39_Boundary ==
    /\ [][(Calls /\ sess.queue_none) =>
            /\ sess'.last.exc = "Closing"
            /\ sess'.enq = sess.enq
            /\ sess'.write_queue = sess.write_queue
            /\ sess'.states = sess.states]_vars
    /\ [][(Calls /\ ~sess.queue_none) =>
            /\ sess'.last.exc = "none"
            /\ Len(sess'.enq) = Len(sess.enq) + 1]_vars
    /\ [](\A n \in 1..Len(sess.enq) :
            /\ InQueue(n) \/ InHand(n) \/ Written(n) \/ FailedByClose(n)
            /\ sess.queue_none => (Written(n) \/ FailedByClose(n)))

\* C39 witness: of two pairs enqueued before the remnants were taken the
\* writer wrote one and the close failed the other; the call made after
\* that raised Closing.
C39_Witness ==
    /\ sess.queue_none
    /\ Len(sess.enq) = 2
    /\ Written(1) /\ ~Written(2) /\ FailedByClose(2)
    /\ sess.last.n = 3 /\ sess.last.exc = "Closing"

====
